---- MODULE Spec2Model ----
(***************************************************************************)
(* Model of the dual-loop memory engine of KiraAI:                         *)
(*   core/chat/memory_manager.py  (MemoryManager: short-term session       *)
(*       memory, hippocampus buffer, forgetting cycle)                     *)
(*   core/chat/vector_store.py    (VectorStore over a chromadb collection) *)
(* The module holds several specifications over one set of variables; a    *)
(* specification leaves the variables of the other parts unchanged.        *)
(***************************************************************************)
EXTENDS Integers, Sequences, FiniteSets, TLC

VARIABLES
    \* ---- MemoryManager: short-term memory and hippocampus buffer ----
    chat_memory,            \* session -> sequence of chunks (key absent = no session)
    chat_memory_file,       \* the document in chat_memory.json, as it parses:
                            \*   session -> sequence of chunks
    pending_conversations,  \* session -> buffered chunks (_pending_conversations)
    background_tasks,       \* sequence of spawned (session, chunks) batches
    pc,                     \* thread -> position inside update_memory
    call_session,           \* thread -> session argument of the running call
    call_chunk,             \* thread -> new_chunk argument of the running call
    chunks_to_process,      \* thread -> local variable of _buffer_for_hippocampus
    loop_running,           \* thread -> asyncio.get_running_loop() succeeds there;
                            \*   its domain is the set of threads that call the manager
    next_chunk,             \* number of chunks handed to update_memory so far
    arrival,                \* session -> chunks in the order they were appended
                            \*            under memory_lock (history)
    \* ---- VectorStore and its chromadb collection ----
    collection,             \* id -> [document, embedding, metadata] (_collection)
    collection_dim,         \* dimensionality of the collection, 0 while unset
    has_external_embeddings,\* VectorStore._has_external_embeddings
    embedding_func,         \* behaviour of the injected embedding function
    now,                    \* time.time()
    vs_call,                \* the last VectorStore call: arguments and outcome
    \* ---- calls running in worker threads, and the forgetting cycle ----
    searcher,               \* thread -> [pc, hits, found]: a search call in a worker
                            \*   thread; found = the entries it has built and
                            \*   access-updated so far
    updater,                \* caller -> [pc, id, content, metadata, vec, ret, missed]:
                            \*   an update_memory call in a worker thread; missed =
                            \*   its Collection.update found no entry of that id
    forgetter,              \* position and locals of run_forgetting_cycle
    forgotten,              \* ids a forgetting cycle has deleted (history)
    minted,                 \* number of ids generate_id has handed out
    cycles,                 \* number of forgetting cycles started
    llm_client,             \* MemoryManager._llm_client is set
    failures,               \* number of chromadb calls that have raised in the
                            \*   worker threads and the forgetting cycle
    \* ---- the memory tools and their files ----
    core_lines,             \* the lines of data/memory/core.txt, without "\n"
    core_vector_map,        \* line index (from 0) -> vector id
                            \*   (data/memory/core_vector_map.json)
    tool_call,              \* the last tool call: arguments and outcome
    \* ---- UserProfileStore ----
    profiles,               \* user_id -> profile (_profiles)
    lock,                   \* the thread that holds _lock, or Free
    save_lock,              \* the thread that holds _save_lock, or Free
    prof,                   \* thread -> position and locals of its call of the
                            \*   store; saves = _save calls of that call, failed =
                            \*   its _save calls that could not write, calls =
                            \*   its increment_and_update_profile calls so far
    files,                  \* the file at the profile path and the temporary file
    crashed,                \* the process has died
    ncalls,                 \* number of calls of the store so far
    \* ---- MemoryManager.recall ----
    recall_call,            \* the last recall: arguments and outcome
    \* ---- the hippocampus tasks on the event loop ----
    tasks,                  \* the tasks create_task has made, in the order of
                            \*   background_tasks: [state, callback]
    tracked,                \* _background_tasks: the tasks in the set, by number
    tool_io,                \* MEMORY_IO_LOCK and the tool calls that run as
                            \*   coroutines: lock = the call that holds the lock,
                            \*   calls = position and locals of each call, owners =
                            \*   for each line of core.txt the id that the
                            \*   memory_add which wrote it had generated (history)
    batch                   \* position and locals of the _hippocampus_process that
                            \*   runs; started = the tasks whose body has begun;
                            \*   extracted = the chunks handed to _extract_facts
                            \*   so far, skipped = the chunks of the batches that
                            \*   found no LLM client (history)

mem_vars == << chat_memory, chat_memory_file, pending_conversations, background_tasks, pc,
               call_session, call_chunk, chunks_to_process, loop_running,
               next_chunk, arrival >>

store_vars == << collection, collection_dim, has_external_embeddings,
                 embedding_func, now, vs_call >>

engine_vars == << searcher, updater, forgetter, forgotten, minted, cycles,
                  llm_client >>

tool_vars == << core_lines, core_vector_map, tool_call >>

\* the variables of the parts that the specifications of the memory manager
\* and of the vector store leave alone
profile_vars == << profiles, lock, save_lock, prof, files, crashed, ncalls >>

task_vars == << tasks, tracked, batch, tool_io >>

rest_vars == << tool_vars, profile_vars, recall_call, task_vars >>

vars == << mem_vars, store_vars, engine_vars, failures, rest_vars >>

----------------------------------------------------------------------------
\* Bounds of the model
NThreads == 2
MaxChunks == 4
MaxWriteLen == 3

\* Program constants
max_memory_length == 2
hippocampus_threshold == 3

Threads == 1..NThreads
\* the threads that call the manager in the current behaviour
Callers == DOMAIN loop_running
Sessions == {"qq:pm:1", "qq:gm:2"}
\* a chunk handed to update_memory is identified by its call number;
\* 0 stands for a chunk that came in through write_memory
WrittenChunk == 0

----------------------------------------------------------------------------
\* Helpers on Python dicts and lists
DictGet(d, k, default) == IF k \in DOMAIN d THEN d[k] ELSE default

DictSet(d, k, v) == [x \in (DOMAIN d) \cup {k} |-> IF x = k THEN v ELSE d[x]]

DictPop(d, k) == [x \in (DOMAIN d) \ {k} |-> d[x]]

EmptyDict == [x \in {} |-> 0]

Tail1(s) == SubSeq(s, 2, Len(s))

RECURSIVE Repeat(_, _)
Repeat(v, n) == IF n = 0 THEN << >> ELSE << v >> \o Repeat(v, n - 1)

SeqToSet(s) == {s[i] : i \in 1..Len(s)}

Count(s, v) == Cardinality({i \in 1..Len(s) : s[i] = v})

----------------------------------------------------------------------------
\* MemoryManager.__init__: empty buffer, no tasks; `callers` are the threads
\* that will call the manager, `loaded` the sessions found in chat_memory.json
\* (each with an empty chunk list)
MemInit(callers, loaded) ==
    /\ chat_memory = [s \in loaded |-> << >>]
    /\ chat_memory_file = chat_memory
    /\ pending_conversations = EmptyDict
    /\ background_tasks = << >>
    /\ loop_running \in [callers -> BOOLEAN]
    /\ pc = [t \in callers |-> "idle"]
    /\ call_session = [t \in callers |-> ""]
    /\ call_chunk = [t \in callers |-> 0]
    /\ chunks_to_process = [t \in callers |-> << >>]
    /\ next_chunk = 0
    /\ arrival = [s \in Sessions |-> << >>]

\* get_session_info / fetch_memory / read_memory: create the session lazily;
\* the three take no lock and do not call _save_memory
LazyCreate(s) ==
    /\ s \notin DOMAIN chat_memory
    /\ chat_memory' = DictSet(chat_memory, s, << >>)
    /\ UNCHANGED << chat_memory_file, pending_conversations, background_tasks, pc, call_session,
                    call_chunk, chunks_to_process, loop_running, next_chunk,
                    arrival >>

\* update_session_info(session, title, description), the block under
\* memory_lock: the session is created when it is absent, and the document is
\* saved.  The title and the description are not part of the model; the same
\* _save_memory writes them.
UpdateSessionInfo(s) ==
    /\ chat_memory' = IF s \in DOMAIN chat_memory THEN chat_memory
                      ELSE DictSet(chat_memory, s, << >>)
    /\ chat_memory_file' = chat_memory'
    /\ UNCHANGED << pending_conversations, background_tasks, pc, call_session,
                    call_chunk, chunks_to_process, loop_running, next_chunk,
                    arrival >>

\* write_memory(session, memory), the block under memory_lock: the list is
\* stored as given and the document is saved
WriteMemory(s, memory) ==
    /\ s \in DOMAIN chat_memory
    /\ chat_memory' = DictSet(chat_memory, s, memory)
    /\ chat_memory_file' = chat_memory'
    /\ UNCHANGED << pending_conversations, background_tasks, pc, call_session,
                    call_chunk, chunks_to_process, loop_running, next_chunk,
                    arrival >>

\* delete_session(session)
DeleteSession(s) ==
    /\ s \in DOMAIN chat_memory
    /\ chat_memory' = DictPop(chat_memory, s)
    /\ chat_memory_file' = chat_memory'
    /\ UNCHANGED << pending_conversations, background_tasks, pc, call_session,
                    call_chunk, chunks_to_process, loop_running, next_chunk,
                    arrival >>

\* the list update_memory leaves in the session: append, then drop the oldest
\* chunk when the list is longer than max_memory_length
AppendAndEvict(memory, c) ==
    IF Len(Append(memory, c)) > max_memory_length
    THEN Tail1(Append(memory, c))
    ELSE Append(memory, c)

\* update_memory returns: the arguments of the call are gone
Return(t) ==
    /\ pc' = [pc EXCEPT ![t] = "idle"]
    /\ call_session' = [call_session EXCEPT ![t] = ""]
    /\ call_chunk' = [call_chunk EXCEPT ![t] = 0]

\* update_memory, first half: the block under memory_lock
UpdateMemoryAppend(t, s) ==
    /\ pc[t] = "idle"
    /\ next_chunk < MaxChunks
    /\ s \in DOMAIN chat_memory
    /\ next_chunk' = next_chunk + 1
    /\ chat_memory' = DictSet(chat_memory, s, AppendAndEvict(chat_memory[s], next_chunk'))
    /\ chat_memory_file' = chat_memory'
    /\ arrival' = [arrival EXCEPT ![s] = Append(@, next_chunk')]
    /\ call_session' = [call_session EXCEPT ![t] = s]
    /\ call_chunk' = [call_chunk EXCEPT ![t] = next_chunk']
    /\ pc' = [pc EXCEPT ![t] = "buffer"]
    /\ UNCHANGED << pending_conversations, background_tasks, chunks_to_process,
                    loop_running >>

\* mutant of ThresholdReached: the buffer is drained one chunk later
ThresholdExceeded(buf) == Len(buf) > hippocampus_threshold

\* the test that decides whether the buffer is drained
ThresholdReached(buf) == Len(buf) >= hippocampus_threshold

\* _buffer_for_hippocampus, the first block under _hippocampus_lock:
\* append, and drain when the threshold is reached
BufferAppend(t) ==
    /\ pc[t] = "buffer"
    /\ LET s == call_session[t]
           buf == Append(DictGet(pending_conversations, s, << >>), call_chunk[t])
       IN IF ThresholdReached(buf)
          THEN /\ chunks_to_process' = [chunks_to_process EXCEPT ![t] = buf]
               /\ pending_conversations' = DictSet(pending_conversations, s, << >>)
               /\ pc' = [pc EXCEPT ![t] = "spawn"]
               /\ UNCHANGED << call_session, call_chunk >>
          ELSE /\ pending_conversations' = DictSet(pending_conversations, s, buf)
               /\ Return(t)
               /\ UNCHANGED chunks_to_process
    /\ UNCHANGED << chat_memory, chat_memory_file, background_tasks, loop_running, next_chunk,
                    arrival >>

\* _buffer_for_hippocampus with a running loop: create_task and track it
SpawnTask(t) ==
    /\ pc[t] = "spawn"
    /\ loop_running[t]
    /\ background_tasks' = Append(background_tasks,
                                  [session |-> call_session[t],
                                   chunks |-> chunks_to_process[t]])
    /\ chunks_to_process' = [chunks_to_process EXCEPT ![t] = << >>]
    /\ Return(t)
    /\ UNCHANGED << chat_memory, chat_memory_file, pending_conversations, loop_running, next_chunk,
                    arrival >>

\* mutant of Restored: the drained chunks are put back behind what was
\* appended since the drain
RestoredBehind(drained, buffered) == buffered \o drained

\* mutant of Restored: the drained chunks are stored over whatever was appended
\* since the drain
RestoredOverwrites(drained, buffered) == drained

\* the list the RuntimeError branch leaves in the buffer
Restored(drained, buffered) == drained \o buffered

\* _buffer_for_hippocampus without a running loop (RuntimeError): put the
\* drained chunks back in front of the buffer, under _hippocampus_lock
RestoreChunks(t) ==
    /\ pc[t] = "spawn"
    /\ ~loop_running[t]
    /\ LET s == call_session[t]
       IN pending_conversations' =
              DictSet(pending_conversations, s,
                      Restored(chunks_to_process[t],
                               DictGet(pending_conversations, s, << >>)))
    /\ chunks_to_process' = [chunks_to_process EXCEPT ![t] = << >>]
    /\ Return(t)
    /\ UNCHANGED << chat_memory, chat_memory_file, background_tasks, loop_running, next_chunk,
                    arrival >>

----------------------------------------------------------------------------
\* VectorStore (core/chat/vector_store.py) over a chromadb collection

\* Bounds of the vector-store model
MaxTime == 4
MaxAccess == 1

\* dimension of chromadb's default embedding function (all-MiniLM-L6-v2)
DefaultDim == 384
\* dimension of the vectors the injected embedding function returns
FuncDim == 4

\* ids as generate_id mints them (12 hex digits in the program)
VecIds == {"m1", "m2"}
Contents == {"a", "b"}
Users == {"qq:1"}
\* an optional integer argument that is None
None == -1
\* an optional content argument that is None
NoContent == "None"
\* lengths of the embedding lists callers pass
CallerDims == {3, DefaultDim}
\* the embedding argument, by its length: None, the empty list (length 0),
\* or a list of d floats
EmbeddingArgs == {None, 0} \cup CallerDims
\* behaviours of the injected embedding_func (None = not injected)
EmbeddingFuncs == {"None", "ok", "empty", "raises"}

\* a vector: the text it was computed for, its length and who computed it
Vector(text, dim, src) == [text |-> text, dim |-> dim, src |-> src]

\* no vector given
NoVector == Vector("", 0, "None")

\* the embedding a caller passes along with a content
CallerVector(content, d) == Vector(content, d, "caller")

\* what the injected embedding function returns for a text
FuncVector(content) == Vector(content, FuncDim, "func")

\* what chromadb computes itself when it is given a document and no vector
DefaultVector(content) == Vector(content, DefaultDim, "default")

NoCall == [op |-> "none"]

\* VectorStore.__init__ on a fresh data directory, with one of the given
\* embedding functions injected
StoreInit(funcs) ==
    /\ collection = EmptyDict
    /\ collection_dim = 0
    /\ has_external_embeddings = FALSE
    /\ embedding_func \in funcs
    /\ now = 1
    /\ vs_call = NoCall

\* mutant of CollectionAccepts: a backend that takes a vector of any length
AcceptsAnyDim(dim) == TRUE

\* chromadb: a collection takes vectors of one dimensionality only, the one
\* of the first vector written; a vector of another length is rejected
\* (the "dimension mismatch" the comments of the callers speak of)
CollectionAccepts(dim) == collection_dim = 0 \/ collection_dim = dim


\* chromadb Collection.upsert(ids, documents, metadatas[, embeddings]):
\* the collection after the call; without a vector chromadb embeds the
\* document with its default function
UpsertVector(document, vec_or_none) ==
    IF vec_or_none = NoVector THEN DefaultVector(document) ELSE vec_or_none

Upserted(id, document, metadata, vec_or_none) ==
    DictSet(collection, id, [document |-> document,
                             embedding |-> UpsertVector(document, vec_or_none),
                             metadata |-> metadata])

\* chromadb Collection.update(ids, metadatas[, documents][, embeddings]):
\* an id that is not in the collection is ignored; a new document without a
\* vector is embedded with the default function
UpdateVector(old, document, vec_or_none) ==
    IF vec_or_none # NoVector THEN vec_or_none
    ELSE IF document # NoContent THEN DefaultVector(document)
    ELSE old.embedding

\* mutant of Updated: an id that is not in the collection is inserted
UpdatedOrInserted(id, document, metadata, vec_or_none) ==
    IF id \notin DOMAIN collection
    THEN Upserted(id, IF document = NoContent THEN "" ELSE document, metadata,
                  vec_or_none)
    ELSE [collection EXCEPT ![id] =
              [document |-> IF document = NoContent THEN @.document ELSE document,
               embedding |-> UpdateVector(@, document, vec_or_none),
               metadata |-> metadata]]

Updated(id, document, metadata, vec_or_none) ==
    IF id \notin DOMAIN collection THEN collection
    ELSE [collection EXCEPT ![id] =
              [document |-> IF document = NoContent THEN @.document ELSE document,
               embedding |-> UpdateVector(@, document, vec_or_none),
               metadata |-> metadata]]

\* the dimension the collection has after taking a vector of length dim
DimAfter(dim) == IF collection_dim = 0 THEN dim ELSE collection_dim

\* VectorStore: switch to external-embedding mode (under _external_embeddings_lock)
MarkExternal == has_external_embeddings' = TRUE

\* add_memory: the metadata built from the entry
EntryMetadata(entry) ==
    [user_id |-> entry.user_id,
     memory_type |-> entry.memory_type,
     importance |-> entry.importance,
     timestamp |-> IF entry.timestamp # 0 THEN entry.timestamp ELSE now,
     access_count |-> entry.access_count,
     last_accessed |-> IF entry.last_accessed # 0 THEN entry.last_accessed ELSE now]

\* MemoryEntry(id, user_id, content, memory_type, importance, timestamp):
\* access_count and last_accessed keep their defaults
MemoryEntry(id, user_id, content, memory_type, importance, timestamp) ==
    [id |-> id, user_id |-> user_id, content |-> content,
     memory_type |-> memory_type, importance |-> importance,
     timestamp |-> timestamp, access_count |-> 0, last_accessed |-> 0]

\* the upsert of add_memory: backend_ok = FALSE is a backend that raises
AddUpsert(entry, vec_or_none, backend_ok) ==
    LET vec == UpsertVector(entry.content, vec_or_none)
    IN IF backend_ok /\ CollectionAccepts(vec.dim)
       THEN /\ collection' = Upserted(entry.id, entry.content, EntryMetadata(entry),
                                      vec_or_none)
            /\ collection_dim' = DimAfter(vec.dim)
            \* the call returned: the record keeps the entry it wrote
            /\ vs_call' = [op |-> "add", entry |-> entry, ret |-> "ok"]
       ELSE /\ UNCHANGED << collection, collection_dim >>
            /\ vs_call' = [op |-> "add", ret |-> "raise"]

\* mutant of AddRefused: the entry is dropped without an error
AddDroppedSilently(entry) ==
    /\ UNCHANGED << collection, collection_dim >>
    /\ vs_call' = [op |-> "add", entry |-> entry, ret |-> "ok"]

\* add_memory raises ValueError before it writes anything
AddRefused(entry) ==
    /\ UNCHANGED << collection, collection_dim >>
    /\ vs_call' = [op |-> "add", ret |-> "ValueError"]

\* VectorStore.add_memory(entry, embedding)
AddMemory(entry, embedding, backend_ok) ==
    /\ IF embedding # None
       THEN IF embedding = 0
            THEN AddRefused(entry) /\ UNCHANGED has_external_embeddings
            ELSE /\ MarkExternal
                 /\ AddUpsert(entry, CallerVector(entry.content, embedding), backend_ok)
       ELSE IF embedding_func # "None"
       THEN IF embedding_func = "ok"
            THEN /\ MarkExternal
                 /\ AddUpsert(entry, FuncVector(entry.content), backend_ok)
            ELSE AddRefused(entry) /\ UNCHANGED has_external_embeddings
       ELSE IF has_external_embeddings
       THEN AddRefused(entry) /\ UNCHANGED has_external_embeddings
       ELSE /\ AddUpsert(entry, NoVector, backend_ok)
            /\ UNCHANGED has_external_embeddings
    /\ UNCHANGED << embedding_func, now >>

\* chromadb Collection.query: the ids it returns are the n_results nearest
\* among the entries that pass the where filter; which ones are nearest is
\* not modelled, so any such set of ids is a possible answer
Matching(user_id, memory_type) ==
    {id \in DOMAIN collection :
        /\ (user_id # "" => collection[id].metadata.user_id = user_id)
        /\ (memory_type # "" => collection[id].metadata.memory_type = memory_type)}

Min(a, b) == IF a < b THEN a ELSE b

Max(a, b) == IF a > b THEN a ELSE b

QueryResults(user_id, memory_type, k) ==
    {S \in SUBSET Matching(user_id, memory_type) :
        Cardinality(S) = Min(k, Cardinality(Matching(user_id, memory_type)))}

\* search: the metadata written back for a returned entry
AccessedMetadata(meta) ==
    [meta EXCEPT !.access_count = @ + 1, !.last_accessed = now]

\* search: the access update of one returned entry, a Collection.update of
\* the metadata read by the query
AccessUpdate(coll, id, meta) ==
    IF id \notin DOMAIN coll THEN coll
    ELSE [coll EXCEPT ![id].metadata = AccessedMetadata(meta)]

\* mutant of TextSearchRefused: a text query is never turned away
TextSearchNeverRefused(query_dim) == FALSE

\* search: a query by text (query_dim = None) is turned away when the
\* collection holds vectors from outside
TextSearchRefused(query_dim) == query_dim = None /\ has_external_embeddings

\* the entries after the access updates of the given hits
AccessUpdated(hits) ==
    [id \in DOMAIN collection |->
        IF id \in hits
        THEN AccessUpdate(collection, id, collection[id].metadata)[id]
        ELSE collection[id]]

\* VectorStore.search as one step.  query_dim is the length of the query
\* embedding (None = a text query); hits is the set of ids left after the
\* threshold filter; backend_ok = FALSE is a Collection.query that raises.
Search(query_dim, user_id, memory_type, k, hits, update_access, backend_ok) ==
    /\ UNCHANGED << collection_dim, has_external_embeddings, embedding_func, now >>
    /\ IF TextSearchRefused(query_dim)
       THEN \* text query refused in external-embedding mode
            /\ UNCHANGED collection
            /\ vs_call' = [op |-> "search", query |-> query_dim, k |-> k,
                           ret |-> {}, queried |-> FALSE, raised |-> FALSE]
       ELSE IF ~backend_ok
               \/ ~CollectionAccepts(IF query_dim = None THEN DefaultDim ELSE query_dim)
       THEN \* Collection.query raised
            /\ UNCHANGED collection
            /\ vs_call' = [op |-> "search", query |-> query_dim, k |-> k,
                           ret |-> {}, queried |-> FALSE, raised |-> FALSE]
       ELSE /\ \E S \in QueryResults(user_id, memory_type, k) : hits \subseteq S
            /\ collection' = IF update_access THEN AccessUpdated(hits) ELSE collection
            /\ vs_call' = [op |-> "search", query |-> query_dim, k |-> k,
                           ret |-> hits, queried |-> TRUE, raised |-> FALSE]

\* VectorStore.search with update_access, when a Collection.update of the
\* loop raises: the call is outside the try block, so search raises after
\* the access updates of the hits that came before (done)
SearchUpdateRaises(query_dim, user_id, memory_type, k, hits, done) ==
    /\ ~TextSearchRefused(query_dim)
    /\ CollectionAccepts(IF query_dim = None THEN DefaultDim ELSE query_dim)
    /\ \E S \in QueryResults(user_id, memory_type, k) : hits \subseteq S
    /\ done \subseteq hits /\ done # hits
    /\ collection' = AccessUpdated(done)
    /\ vs_call' = [op |-> "search", query |-> query_dim, k |-> k,
                   ret |-> {}, queried |-> TRUE, raised |-> TRUE]
    /\ UNCHANGED << collection_dim, has_external_embeddings, embedding_func, now >>

\* update_memory: the metadata it writes
UpdatedMetadata(old_meta, importance, access_count) ==
    [old_meta EXCEPT
        !.importance = IF importance # None THEN importance ELSE @,
        !.access_count = IF access_count # None THEN access_count ELSE @]

\* mutant of UpdateRefused: a refusing branch that reports success
UpdateRefusedReturnsTrue(id, content) ==
    /\ UNCHANGED << collection, collection_dim >>
    /\ vs_call' = [op |-> "update", id |-> id, content |-> content, ret |-> TRUE]

\* update_memory returns False without writing
UpdateRefused(id, content) ==
    /\ UNCHANGED << collection, collection_dim >>
    /\ vs_call' = [op |-> "update", id |-> id, content |-> content, ret |-> FALSE]

\* update_memory: the Collection.update call and the return value
UpdateWrite(id, content, metadata, vec, backend_ok) ==
    LET written == UpdateVector(collection[id], content, vec)
    IN IF backend_ok /\ CollectionAccepts(written.dim)
       THEN /\ collection' = Updated(id, content, metadata, vec)
            /\ collection_dim' = DimAfter(written.dim)
            /\ vs_call' = [op |-> "update", id |-> id, content |-> content,
                           ret |-> TRUE]
       ELSE UpdateRefused(id, content)

\* update_memory: where the vector of a new content comes from.  refuse =
\* no vector can be had and the call returns False; mark = the store goes to
\* external-embedding mode; vec = the vector handed to Collection.update
\* (NoVector = none is handed over)
UpdatePlan(content, embedding) ==
    IF content = NoContent
    THEN [refuse |-> FALSE, mark |-> FALSE, vec |-> NoVector]
    ELSE IF embedding # None
    THEN [refuse |-> FALSE, mark |-> TRUE, vec |-> CallerVector(content, embedding)]
    ELSE IF embedding_func # "None"
    THEN [refuse |-> embedding_func # "ok", mark |-> embedding_func = "ok",
          vec |-> FuncVector(content)]
    ELSE [refuse |-> has_external_embeddings, mark |-> FALSE, vec |-> NoVector]

\* VectorStore.update_memory(memory_id, content, importance, metadata, embedding)
\* as one step; metadata is a map {"access_count": n} or None
UpdateMemory(id, content, importance, access_count, embedding, backend_ok) ==
    /\ UNCHANGED << embedding_func, now >>
    /\ IF embedding = 0 \/ ~backend_ok \/ id \notin DOMAIN collection
       THEN UpdateRefused(id, content) /\ UNCHANGED has_external_embeddings
       ELSE LET new_meta == UpdatedMetadata(collection[id].metadata, importance,
                                            access_count)
                plan == UpdatePlan(content, embedding)
            IN IF plan.refuse
               THEN UpdateRefused(id, content) /\ UNCHANGED has_external_embeddings
               ELSE /\ has_external_embeddings' = (has_external_embeddings \/ plan.mark)
                    /\ UpdateWrite(id, content, new_meta, plan.vec, backend_ok)

\* VectorStore.delete_memory(memory_id)
DeleteMemory(id, backend_ok) ==
    /\ collection' = IF backend_ok THEN DictPop(collection, id) ELSE collection
    /\ vs_call' = [op |-> "delete", ret |-> backend_ok]
    /\ UNCHANGED << collection_dim, has_external_embeddings, embedding_func, now >>

\* what get_memory_by_id returns when it finds nothing or the backend raises
NoEntry == [id |-> ""]

\* the MemoryEntry get_memory_by_id builds from the document and the
\* metadata of the stored entry
FoundEntry(id) ==
    [id |-> id, content |-> collection[id].document] @@ collection[id].metadata

\* VectorStore.get_memory_by_id(memory_id)
GetMemoryById(memory_id, backend_ok) ==
    /\ LET found == backend_ok /\ memory_id \in DOMAIN collection
       IN  vs_call' = [op |-> "get", id |-> memory_id, found |-> found,
                       ret |-> IF found THEN FoundEntry(memory_id) ELSE NoEntry]
    /\ UNCHANGED << collection, collection_dim, has_external_embeddings,
                    embedding_func, now >>

\* time passes, up to a limit
Tick(limit) ==
    /\ now < limit
    /\ now' = now + 1
    /\ UNCHANGED << collection, collection_dim, has_external_embeddings,
                    embedding_func, vs_call >>

----------------------------------------------------------------------------
\* VectorStore calls in worker threads (asyncio.to_thread): the chromadb
\* calls inside one VectorStore method are separate steps, and the steps of
\* different threads interleave

\* Bounds: concurrent searches, forgetting cycles in a behaviour, chromadb
\* calls that raise in a behaviour, latest time at which a race starts
NSearchers == 2
MaxCycles == 2
MaxFailures == 1
RaceMaxTime == 2

\* outcomes of a chromadb call: TRUE = it returns, FALSE = it raises; at most
\* MaxFailures calls raise in a behaviour
BackendOutcomes == IF failures < MaxFailures THEN BOOLEAN ELSE {TRUE}
Counted(backend_ok) == failures' = failures + (IF backend_ok THEN 0 ELSE 1)

\* the ids generate_id hands out, in the order it hands them out; an id is
\* never handed out twice
IdSeq == << "m1", "m2", "m3", "m4", "m5", "m6", "m7", "m8", "m9", "m10", "m11",
           "m12", "m13", "m14", "m15", "m16" >>
generate_id == IdSeq[minted + 1]
Minted == {IdSeq[i] : i \in 1..minted}

\* the callers of update_memory in the engine
UpdateCallers == {"hippocampus", "forgetter"}

NoMetadata ==
    [user_id |-> "", memory_type |-> "", importance |-> 0, timestamp |-> 0,
     access_count |-> 0, last_accessed |-> 0]

SearcherIdle == [pc |-> "idle", hits |-> << >>, found |-> {}]

UpdaterIdle ==
    [pc |-> "idle", id |-> "", content |-> NoContent, metadata |-> NoMetadata,
     vec |-> NoVector, ret |-> FALSE, missed |-> FALSE]

ForgetterIdle ==
    [pc |-> "idle", now |-> 0, all_memories |-> EmptyDict, todo |-> << >>,
     removed_ids |-> {}, users |-> << >>, old_facts |-> << >>,
     summaries |-> 0, summaries_added |-> 0,
     \* the paged scan: offset of the next page, the ids collected so far in
     \* the order of all_memories, and the ids the store held when the scan
     \* began (history)
     offset |-> 0, collected |-> << >>, scanned |-> {}]

\* the ids of a set in the order chromadb returns them (insertion order)
RECURSIVE InOrder(_, _)
InOrder(ids, i) ==
    IF i > Len(IdSeq) THEN << >>
    ELSE (IF IdSeq[i] \in ids THEN << IdSeq[i] >> ELSE << >>) \o InOrder(ids, i + 1)

\* search in a worker thread, first step: Collection.query.  results is
\* the set of ids the query returns (the nearest ones; which entries are
\* nearest is up to the query).  Their metadata is read here; the access
\* updates follow one by one.
SearchQuery(t, query_dim, user_id, k, results, backend_ok) ==
    /\ searcher[t].pc = "idle"
    /\ IF (query_dim = None /\ has_external_embeddings)
          \/ ~backend_ok
          \/ ~CollectionAccepts(IF query_dim = None THEN DefaultDim ELSE query_dim)
       THEN /\ results = {}
            /\ searcher' = [searcher EXCEPT ![t] = [@ EXCEPT !.pc = "done"]]
       ELSE /\ results \in QueryResults(user_id, "", k)
            /\ searcher' = [searcher EXCEPT ![t] =
                   [pc |-> IF results = {} THEN "done" ELSE "write",
                    hits |-> [i \in 1..Cardinality(results) |->
                                 << InOrder(results, 1)[i],
                                    collection[InOrder(results, 1)[i]].metadata >>],
                    found |-> {}]]
    /\ UNCHANGED << store_vars, updater, forgetter, forgotten, minted, cycles,
                    llm_client >>

\* search in a worker thread: the access update of the next returned entry,
\* a Collection.update of the metadata the query read.  An exception of the
\* backend leaves search; recall answers it with an empty list.
SearchAccessUpdate(t, backend_ok) ==
    /\ searcher[t].pc = "write"
    /\ LET hit == Head(searcher[t].hits)
           rest == Tail(searcher[t].hits)
       IN IF backend_ok
          THEN /\ collection' = AccessUpdate(collection, hit[1], hit[2])
               /\ searcher' = [searcher EXCEPT ![t] =
                      [pc |-> IF rest = << >> THEN "done" ELSE "write",
                       hits |-> rest,
                       found |-> @.found \cup {hit[1]}]]
          ELSE /\ UNCHANGED collection
               /\ searcher' = [searcher EXCEPT ![t] =
                      [pc |-> "done", hits |-> << >>, found |-> @.found]]
    /\ UNCHANGED << collection_dim, has_external_embeddings, embedding_func, now,
                    vs_call, updater, forgetter, forgotten, minted, cycles,
                    llm_client >>

\* update_memory in a worker thread, first step: Collection.get, the new
\* metadata and the choice of the vector.  ret is the value returned when
\* the call ends here.
UpdateGet(c, id, content, importance, embedding, backend_ok) ==
    /\ updater[c].pc # "update"
    /\ IF embedding = 0 \/ ~backend_ok \/ id \notin DOMAIN collection
          \/ UpdatePlan(content, embedding).refuse
       THEN /\ updater' = [updater EXCEPT ![c] =
                   [UpdaterIdle EXCEPT !.pc = "done", !.id = id]]
            /\ UNCHANGED has_external_embeddings
       ELSE /\ updater' = [updater EXCEPT ![c] =
                   [pc |-> "update", id |-> id, content |-> content,
                    metadata |-> UpdatedMetadata(collection[id].metadata,
                                                 importance, None),
                    vec |-> UpdatePlan(content, embedding).vec,
                    ret |-> FALSE, missed |-> FALSE]]
            /\ has_external_embeddings' =
                   (has_external_embeddings \/ UpdatePlan(content, embedding).mark)
    /\ UNCHANGED << collection, collection_dim, embedding_func, now, vs_call >>

\* the vector a Collection.update call carries or makes chromadb compute
\* (NoVector: the call touches no vector)
WrittenVector(content, vec) ==
    IF vec # NoVector THEN vec
    ELSE IF content # NoContent THEN DefaultVector(content)
    ELSE NoVector

\* update_memory in a worker thread, second step: Collection.update with
\* what the first step prepared
UpdateCommit(c, backend_ok) ==
    /\ updater[c].pc = "update"
    /\ LET u == updater[c]
           w == WrittenVector(u.content, u.vec)
       IN IF backend_ok /\ (w = NoVector \/ CollectionAccepts(w.dim))
          THEN /\ collection' = Updated(u.id, u.content, u.metadata, u.vec)
               /\ updater' = [updater EXCEPT ![c] =
                      [@ EXCEPT !.pc = "done", !.ret = TRUE,
                                !.missed = u.id \notin DOMAIN collection]]
          ELSE /\ UNCHANGED collection
               /\ updater' = [updater EXCEPT ![c] = [@ EXCEPT !.pc = "done",
                                                                !.ret = FALSE]]
    /\ UNCHANGED << collection_dim, has_external_embeddings, embedding_func, now,
                    vs_call >>

\* _deduplicate_and_store, decision "update": update_memory(most_similar.id,
\* content=merged, importance=max(importance, most_similar.importance),
\* embedding=merged_embedding).  most_similar was found by an earlier search,
\* so its id is one that has been handed out; merged_embedding is None
\* when there is no client or embed failed.
MergedContent == "b"
MergedImportances == {7}
EmbedDim == 3

HippocampusUpdateGet(id, importance, embed_ok, backend_ok) ==
    /\ updater["hippocampus"].pc = "idle"
    /\ UpdateGet("hippocampus", id, MergedContent, importance,
                 IF llm_client /\ embed_ok THEN EmbedDim ELSE None, backend_ok)
    /\ UNCHANGED << searcher, forgetter, forgotten, minted, cycles, llm_client >>

HippocampusUpdateCommit(backend_ok) ==
    /\ UpdateCommit("hippocampus", backend_ok)
    /\ UNCHANGED << searcher, forgetter, forgotten, minted, cycles, llm_client >>

----------------------------------------------------------------------------
\* The forgetting cycle

\* Time is counted in units of 90 days, the half-life of creation_decay:
\* access_decay = 0.5 ** (days_since_access / 30) = 1 / 8 ^ units and
\* creation_decay = 0.5 ** (days_since_creation / 90) = 1 / 2 ^ units.
\* timestamp and last_accessed are never 0 here, so the 30-day defaults of
\* _calculate_retention_score do not come into play.
AccessUnits(mem, t) == t - mem.last_accessed
CreationUnits(mem, t) == t - mem.timestamp

\* _calculate_retention_score as an exact fraction, in thousandths:
\* score = ScoreNum / ScoreDen / 1000
ScoreDen(mem, t) == (8 ^ AccessUnits(mem, t)) * (2 ^ CreationUnits(mem, t))

ScoreNum(mem, t) ==
    LET unclamped ==
            35 * mem.importance * ScoreDen(mem, t)
            + 250 * (2 ^ CreationUnits(mem, t))
            + 100 * (8 ^ AccessUnits(mem, t))
            + Min(mem.access_count * 50, 300) * ScoreDen(mem, t)
            + (IF mem.memory_type = "reflection" THEN 200 ELSE 0) * ScoreDen(mem, t)
    IN Min(unclamped, 1000 * ScoreDen(mem, t))

\* score < thousandths / 1000
ScoreBelow(mem, t, thousandths) == ScoreNum(mem, t) < thousandths * ScoreDen(mem, t)

\* mutant of Downgraded: two steps down
DowngradedByTwo(importance) == Max(1, importance - 2)

\* mutant of Downgraded: no floor
DowngradedUnfloored(importance) == importance - 1

\* the importance a downgrade asks for
Downgraded(importance) == Max(1, importance - 1)

\* the MemoryEntry get_all_memories builds from a stored entry
ScannedEntry(id) ==
    [content |-> collection[id].document] @@ collection[id].metadata

\* run_forgetting_cycle up to the end of the scan: now = time.time() and the
\* paged get_all_memories (a page that fails is an empty page)
ForgetScan(backend_ok) ==
    /\ forgetter.pc \in {"idle", "done"}
    /\ cycles < MaxCycles
    /\ cycles' = cycles + 1
    /\ forgetter' =
           [ForgetterIdle EXCEPT
               !.pc = "loop",
               !.now = now,
               !.all_memories = IF backend_ok
                                THEN [id \in DOMAIN collection |-> ScannedEntry(id)]
                                ELSE EmptyDict,
               !.todo = IF backend_ok THEN InOrder(DOMAIN collection, 1) ELSE << >>]
    /\ UNCHANGED << store_vars, searcher, updater, forgotten, minted, llm_client >>

\* run_forgetting_cycle, the scan page by page.  page_size is 1000 in the
\* program; the model pages by 2.
page_size == 2

\* chromadb Collection.get(limit, offset): the ids of one page
Page(limit, offset) ==
    LET ids == InOrder(DOMAIN collection, 1)
    IN  SubSeq(ids, offset + 1, Min(offset + limit, Len(ids)))

\* mutant of ShortPage: a full page ends the scan as well
ShortOrFullPage(page) == Len(page) <= page_size

\* the scan ends after a page that is shorter than page_size
ShortPage(page) == Len(page) < page_size

\* run_forgetting_cycle up to its first get_all_memories
ForgetPagingStart ==
    /\ forgetter.pc \in {"idle", "done"}
    /\ cycles < MaxCycles
    /\ cycles' = cycles + 1
    /\ forgetter' = [ForgetterIdle EXCEPT !.pc = "paging", !.now = now,
                                         !.scanned = DOMAIN collection]
    /\ UNCHANGED << store_vars, searcher, updater, forgotten, minted, llm_client >>

\* one turn of the while loop: get_all_memories(limit=page_size, offset) in
\* a worker thread (a Collection.get that raises gives the empty page), then
\* the two exits of the loop or the next offset
ForgetPage(backend_ok) ==
    /\ forgetter.pc = "paging"
    /\ LET page == IF backend_ok THEN Page(page_size, forgetter.offset) ELSE << >>
       IN  forgetter' =
               IF page = << >>
               THEN [forgetter EXCEPT !.pc = "loop", !.todo = forgetter.collected]
               ELSE [forgetter EXCEPT
                        !.collected = @ \o page,
                        !.all_memories =
                            [id \in DOMAIN @ \cup SeqToSet(page) |->
                                IF id \in SeqToSet(page) THEN ScannedEntry(id)
                                ELSE @[id]],
                        !.todo = IF ShortPage(page) THEN forgetter.collected \o page
                                 ELSE @,
                        !.pc = IF ShortPage(page) THEN "loop" ELSE @,
                        !.offset = IF ShortPage(page) THEN @ ELSE @ + page_size]
    /\ UNCHANGED << store_vars, searcher, updater, forgotten, minted, cycles,
                    llm_client >>

\* the entry the loop of run_forgetting_cycle is at
ScanHead == forgetter.all_memories[Head(forgetter.todo)]

\* loop body, score < 0.2: delete_memory
ForgetDelete(backend_ok) ==
    /\ forgetter.pc = "loop" /\ forgetter.todo # << >>
    /\ ScoreBelow(ScanHead, forgetter.now, 200)
    /\ DeleteMemory(Head(forgetter.todo), backend_ok)
    /\ forgetter' = [forgetter EXCEPT
           !.todo = Tail(@),
           !.removed_ids = IF backend_ok THEN @ \cup {Head(forgetter.todo)} ELSE @]
    /\ forgotten' = IF backend_ok THEN forgotten \cup {Head(forgetter.todo)}
                    ELSE forgotten
    /\ UNCHANGED << searcher, updater, minted, cycles, llm_client >>

\* loop body, 0.2 <= score < 0.4 and a fact: update_memory(mem.id,
\* importance=max(1, mem.importance - 1)) in a worker thread, up to its
\* Collection.get; a call that ends there has returned False
ForgetDowngradeGet(backend_ok) ==
    /\ forgetter.pc = "loop" /\ forgetter.todo # << >>
    /\ ~ScoreBelow(ScanHead, forgetter.now, 200)
    /\ ScoreBelow(ScanHead, forgetter.now, 400)
    /\ ScanHead.memory_type = "fact"
    /\ UpdateGet("forgetter", Head(forgetter.todo), NoContent,
                 Downgraded(ScanHead.importance), None, backend_ok)
    /\ forgetter' = IF updater'["forgetter"].pc = "update"
                    THEN [forgetter EXCEPT !.pc = "downgrade"]
                    ELSE [forgetter EXCEPT !.todo = Tail(@)]
    /\ UNCHANGED << searcher, forgotten, minted, cycles, llm_client >>

\* the downgrade's Collection.update; the loop goes on to the next entry
ForgetDowngradeCommit(backend_ok) ==
    /\ forgetter.pc = "downgrade"
    /\ UpdateCommit("forgetter", backend_ok)
    /\ forgetter' = [forgetter EXCEPT !.pc = "loop", !.todo = Tail(@)]
    /\ UNCHANGED << searcher, forgotten, minted, cycles, llm_client >>

\* loop body, neither branch taken
ForgetKeep ==
    /\ forgetter.pc = "loop" /\ forgetter.todo # << >>
    /\ ~ScoreBelow(ScanHead, forgetter.now, 200)
    /\ ~(ScoreBelow(ScanHead, forgetter.now, 400) /\ ScanHead.memory_type = "fact")
    /\ forgetter' = [forgetter EXCEPT !.todo = Tail(@)]
    /\ UNCHANGED << store_vars, searcher, updater, forgotten, minted, cycles,
                    llm_client >>

\* least number of old facts of a user that are summarized
MinOldFacts == 5
\* most lines of a summary the model lets the LLM answer
MaxSummaries == 2

\* _summarize_old_memories: the facts among the survivors that are older
\* than 30 days (a third of a time unit) at the time it runs
IsOldFact(id) ==
    /\ forgetter.all_memories[id].memory_type = "fact"
    /\ CreationUnits(forgetter.all_memories[id], now) > 0

OldFacts(user_id) ==
    {id \in (DOMAIN forgetter.all_memories) \ forgetter.removed_ids :
        IsOldFact(id) /\ forgetter.all_memories[id].user_id = user_id}

\* a sequence without the repetitions of its elements
RECURSIVE Distinct(_)
Distinct(seq) ==
    IF seq = << >> THEN << >>
    ELSE LET init == Distinct(SubSeq(seq, 1, Len(seq) - 1))
             last == seq[Len(seq)]
         IN IF last \in SeqToSet(init) THEN init ELSE Append(init, last)

\* the keys of user_old_facts, in the order in which the dict got them
OldFactUsers ==
    LET ids == InOrder({id \in (DOMAIN forgetter.all_memories) \ forgetter.removed_ids :
                           IsOldFact(id)}, 1)
    IN Distinct([i \in 1..Len(ids) |-> forgetter.all_memories[ids[i]].user_id])

\* end of the loop of run_forgetting_cycle; _summarize_old_memories groups
\* the old facts by user (without a client it returns at once)
ForgetGroup ==
    /\ forgetter.pc = "loop" /\ forgetter.todo = << >>
    /\ forgetter' = IF llm_client /\ OldFactUsers # << >>
                    THEN [forgetter EXCEPT !.pc = "users", !.users = OldFactUsers]
                    ELSE [forgetter EXCEPT !.pc = "done"]
    /\ UNCHANGED << store_vars, searcher, updater, forgotten, minted, cycles,
                    llm_client >>

\* the loop over the users has come to its end, or goes to the next user
NextUser(users) == IF Tail(users) = << >> THEN "done" ELSE "users"

\* one user of the loop, up to the answer of the LLM: lines = number of
\* non-empty lines of the answer, 0 also for a failed call
ForgetSummarize(lines) ==
    /\ forgetter.pc = "users"
    /\ LET user_id == Head(forgetter.users)
       IN forgetter' =
              IF Cardinality(OldFacts(user_id)) >= MinOldFacts /\ lines > 0
              THEN [forgetter EXCEPT !.pc = "store",
                                     !.old_facts = InOrder(OldFacts(user_id), 1),
                                     !.summaries = lines,
                                     !.summaries_added = 0]
              ELSE [forgetter EXCEPT !.pc = NextUser(forgetter.users),
                                     !.users = Tail(@)]
    /\ UNCHANGED << store_vars, searcher, updater, forgotten, minted, cycles,
                    llm_client >>

SummaryContent == "s"
SummaryImportance == 6

\* mutant of AfterSummaries: the old facts are deleted whatever was stored
AlwaysSwap(summaries_added, users) == "swap"

\* after the last summary line: the old facts are deleted only if a summary
\* was stored, otherwise the loop goes on with the next user
AfterSummaries(summaries_added, users) ==
    IF summaries_added > 0 THEN "swap" ELSE NextUser(users)

\* one summary line: embed it and add_memory(entry, embedding=summary_embedding)
ForgetStoreSummary(embed_ok, backend_ok) ==
    /\ forgetter.pc = "store"
    /\ minted < Len(IdSeq)
    /\ AddMemory(MemoryEntry(generate_id, Head(forgetter.users), SummaryContent,
                             "summary", SummaryImportance, now),
                 IF embed_ok THEN EmbedDim ELSE None, backend_ok)
    /\ minted' = minted + 1
    /\ LET added == forgetter.summaries_added + (IF vs_call'.ret = "ok" THEN 1 ELSE 0)
           next == IF forgetter.summaries > 1 THEN "store"
                   ELSE AfterSummaries(added, forgetter.users)
       IN forgetter' = [forgetter EXCEPT
              !.summaries = @ - 1,
              !.summaries_added = added,
              !.pc = next,
              !.users = IF next \in {"store", "swap"} THEN @ ELSE Tail(@)]
    /\ UNCHANGED << searcher, updater, forgotten, cycles, llm_client >>

\* the summary swap: delete_memory of the next old fact of the user
ForgetSwapDelete(backend_ok) ==
    /\ forgetter.pc = "swap"
    /\ DeleteMemory(Head(forgetter.old_facts), backend_ok)
    /\ forgetter' =
           IF Tail(forgetter.old_facts) = << >>
           THEN [forgetter EXCEPT !.old_facts = << >>,
                                  !.pc = NextUser(forgetter.users),
                                  !.users = Tail(@)]
           ELSE [forgetter EXCEPT !.old_facts = Tail(@)]
    /\ forgotten' = IF backend_ok THEN forgotten \cup {Head(forgetter.old_facts)}
                    ELSE forgotten
    /\ UNCHANGED << searcher, updater, minted, cycles, llm_client >>

\* time passes beside the engine
EngineTick(limit) ==
    /\ Tick(limit)
    /\ UNCHANGED engine_vars

\* no call in a worker thread and no forgetting cycle has started yet
EngineIdle(searchers) ==
    /\ searcher = [t \in searchers |-> SearcherIdle]
    /\ updater = [c \in UpdateCallers |-> UpdaterIdle]
    /\ forgetter = ForgetterIdle
    /\ forgotten = {}
    /\ cycles = 0

\* the engine is not part of the specification
EngineOff == EngineIdle({}) /\ minted = 0 /\ llm_client = FALSE /\ failures = 0

\* an entry as add_memory stored it at time 1 and as searches at time 1
\* left its access_count; with a client its vector is the client's
StoredFor(user_id, content, memory_type, importance, access_count) ==
    [document |-> content,
     embedding |-> IF llm_client THEN CallerVector(content, EmbedDim)
                   ELSE DefaultVector(content),
     metadata |-> [user_id |-> user_id, memory_type |-> memory_type,
                   importance |-> importance, timestamp |-> 1,
                   access_count |-> access_count, last_accessed |-> 1]]

Stored(content, memory_type, importance, access_count) ==
    StoredFor("qq:1", content, memory_type, importance, access_count)

\* the store after the entries were added under fresh ids, at one of the
\* given times
Seeded(entries, times) ==
    /\ collection = [id \in {IdSeq[i] : i \in 1..Len(entries)} |->
                        entries[CHOOSE i \in 1..Len(entries) : IdSeq[i] = id]]
    /\ collection_dim = (IF llm_client THEN EmbedDim ELSE DefaultDim)
    /\ has_external_embeddings = llm_client
    /\ embedding_func = "None"
    /\ now \in times
    /\ vs_call = NoCall
    /\ minted = Len(entries)

----------------------------------------------------------------------------
\* The memory tools (data/tools/memory.py).  A tool call computes its
\* embedding first and then runs under MEMORY_IO_LOCK, so the calls are
\* serialized and each is one step.  The files are read and written without
\* faults; a text holds no line break.

\* Bound: memory_add calls in a behaviour (so core.txt has at most as many
\* lines)
MaxAdds == 2

\* texts the agent passes: the contents and a text of white space
BlankText == " "
ToolTexts == Contents \cup {BlankText}

\* str.strip()
Strip(text) == IF text = BlankText THEN "" ELSE text

\* user_id arguments of memory_add: "" is the default of an omitted argument
ToolUsers == Users \cup {""}

\* importance arguments of memory_add, integers
ToolImportances == {0, 5, 11}

\* memory_add: importance = min(max(int(importance), 1), 10)
Sanitized(importance) == Min(Max(importance, 1), 10)

NoToolCall == [op |-> "none", index |-> None, ret |-> ""]

\* no tool has been called and core.txt is empty
ToolsOff ==
    /\ core_lines = << >>
    /\ core_vector_map = EmptyDict
    /\ tool_call = NoToolCall

\* the indexes of the lines of core.txt
LineIndexes == 0..(Len(core_lines) - 1)
Line(index) == core_lines[index + 1]

\* the embedding a tool computes before it takes the lock
ToolEmbedding(embed_ok) == IF llm_client /\ embed_ok THEN EmbedDim ELSE None

\* MemoryAddTool.execute(text, user_id, importance)
MemoryAdd(text, user_id, importance, embed_ok, backend_ok) ==
    LET entry == MemoryEntry(generate_id, user_id, text, "fact",
                             Sanitized(importance), now)
        line_index == Len(core_lines)
    IN /\ core_lines' = Append(core_lines, text)
       /\ minted' = minted + 1
       /\ AddMemory(entry, ToolEmbedding(embed_ok), backend_ok)
       /\ IF vs_call'.ret = "ok"
          THEN /\ core_vector_map' = DictSet(core_vector_map, line_index, entry.id)
               /\ tool_call' = [op |-> "memory_add", index |-> line_index,
                                ret |-> "Core memory added"]
          ELSE /\ UNCHANGED core_vector_map
               /\ tool_call' = [op |-> "memory_add", index |-> line_index,
                                ret |-> "vector store write failed"]
       /\ UNCHANGED << searcher, updater, forgetter, forgotten, cycles,
                       llm_client >>

\* the entry the map names for a line, if the store still holds it
MappedEntry(index) ==
    IF index \in DOMAIN core_vector_map
       /\ core_vector_map[index] \in DOMAIN collection
    THEN {core_vector_map[index]}
    ELSE {}

\* the facts whose stripped content is the given text
ContentMatches(text) ==
    {id \in DOMAIN collection :
        /\ Strip(collection[id].document) = text
        /\ collection[id].metadata.memory_type = "fact"}

\* memory_update: the entries vector_id can be; matched[0] is the first
\* match in the order chromadb returns the entries
UpdateTargets(index, old_text) ==
    IF MappedEntry(index) # {} THEN MappedEntry(index)
    ELSE IF old_text # "" THEN ContentMatches(old_text)
    ELSE {}

\* memory_remove: the entries vector_id can be
RemoveTargets(index, removed_text) ==
    IF removed_text = "" THEN {}
    ELSE IF MappedEntry(index) # {} THEN MappedEntry(index)
    ELSE ContentMatches(removed_text)

\* a tool call that returns "Index out of range"
OutOfRange(op, index) ==
    /\ index \notin LineIndexes
    /\ tool_call' = [op |-> op, index |-> index, ret |-> "Index out of range"]
    /\ UNCHANGED << core_lines, core_vector_map, store_vars, engine_vars >>

\* MemoryUpdateTool.execute(index, text) with an index in range
MemoryUpdate(index, text, embed_ok, backend_ok) ==
    /\ index \in LineIndexes
    /\ core_lines' = [core_lines EXCEPT ![index + 1] = text]
    /\ LET ids == UpdateTargets(index, Strip(Line(index)))
       IN IF ids = {}
          THEN /\ backend_ok
               /\ tool_call' = [op |-> "memory_update", index |-> index,
                                ret |-> "vector sync failed"]
               /\ UNCHANGED store_vars
          ELSE /\ \E vector_id \in ids :
                      UpdateMemory(vector_id, text, None, None,
                                   ToolEmbedding(embed_ok), backend_ok)
               /\ tool_call' = [op |-> "memory_update", index |-> index,
                                ret |-> IF vs_call'.ret THEN "Core memory updated"
                                        ELSE "vector sync failed"]
    /\ UNCHANGED << core_vector_map, engine_vars >>

\* memory_remove: the map after the line at index has gone
Shifted(vmap, index) ==
    [k \in {k \in DOMAIN vmap : k < index}
           \cup {k - 1 : k \in {x \in DOMAIN vmap : x > index}} |->
        IF k < index THEN vmap[k] ELSE vmap[k + 1]]

\* a list without its element at index (lines.pop(index))
Popped(lines, index) ==
    SubSeq(lines, 1, index) \o SubSeq(lines, index + 2, Len(lines))

\* MemoryRemoveTool.execute(index) with an index in range
MemoryRemove(index, backend_ok) ==
    /\ index \in LineIndexes
    /\ core_lines' = Popped(core_lines, index)
    /\ LET ids == RemoveTargets(index, Strip(Line(index)))
       IN IF ids = {}
          THEN /\ backend_ok
               /\ tool_call' = [op |-> "memory_remove", index |-> index,
                                ret |-> "Core memory removed"]
               /\ UNCHANGED store_vars
          ELSE /\ \E vector_id \in ids : DeleteMemory(vector_id, backend_ok)
               /\ tool_call' = [op |-> "memory_remove", index |-> index,
                                ret |-> IF vs_call'.ret THEN "Core memory removed"
                                        ELSE "vector sync failed"]
    /\ core_vector_map' = Shifted(core_vector_map, index)
    /\ UNCHANGED engine_vars


----------------------------------------------------------------------------
\* The hippocampus pipeline writing to the store (_process_hippocampus):
\* _extract_facts, then _deduplicate_and_store for each fact

\* session ids "adapter:type:id", split at the colons
PmSession == << "qq", "pm", "1" >>
GmSession == << "qq", "gm", "2" >>
HippoSessions == {PmSession, GmSession}

\* _extract_user_id_from_session(session), parts = session.split(":", 2)
ExtractUserId(parts) ==
    IF parts[2] = "gm" THEN parts[1] \o ":group:" \o parts[3]
    ELSE parts[1] \o ":" \o parts[3]

\* the "importance" the LLM writes for a fact, in tenths (75 is 7.5), or
\* None when it writes none
RawImportances == {None, -20, 0, 75, 150}

\* int(float(raw_imp)): the fraction is cut off, towards zero
IntOfFloat(tenths) ==
    IF tenths >= 0 THEN tenths \div 10 ELSE -((-tenths) \div 10)

\* _extract_facts: the importance of a cleaned fact
Normalized(raw_imp) == IF raw_imp = None THEN 5 ELSE IntOfFloat(raw_imp)

\* _deduplicate_and_store, no similar fact found or decision "new": the
\* fact is added under a fresh id
HippocampusStore(session, raw_imp, embed_ok, backend_ok) ==
    /\ AddMemory(MemoryEntry(generate_id, ExtractUserId(session), "a", "fact",
                             Normalized(raw_imp), now),
                 ToolEmbedding(embed_ok), backend_ok)
    /\ minted' = minted + 1
    /\ UNCHANGED << searcher, updater, forgetter, forgotten, cycles, llm_client >>

\* _deduplicate_and_store, decision "update", with nothing running beside
\* it: most_similar is a fact of the user that the search found
HippocampusMerge(session, id, raw_imp, embed_ok, backend_ok) ==
    /\ llm_client
    /\ id \in Matching(ExtractUserId(session), "fact")
    /\ UpdateMemory(id, MergedContent,
                    Max(Normalized(raw_imp), collection[id].metadata.importance),
                    None, ToolEmbedding(embed_ok), backend_ok)
    /\ UNCHANGED engine_vars

----------------------------------------------------------------------------
\* UserProfileStore (core/chat/user_profile.py).  Its methods run in worker
\* threads (asyncio.to_thread); a method is a sequence of steps: take _lock,
\* work on _profiles, take _save_lock, the steps of _save, release the
\* locks.  The fields platform, preferences, relationships, last_interaction
\* and extra are left out: platform is handled as nickname is, and no
\* operation modelled here reads the others.

\* Bound: calls of the store in a behaviour
MaxCalls == 3

\* a lock that no thread holds
Free == 0

TraitValues == {"t1", "t2"}
FactValues == {"f1", "f2"}
\* the nickname update_user_interaction passes on, and the name of set_name
NewNickname == "kira"
NewName == "Kira"

\* the methods that only read, and those that write
Readers == {"get_profile", "get_profile_prompt"}
TraitOps == {"add_trait", "remove_trait"}
FactOps == {"add_fact", "remove_fact"}

\* UserProfile(user_id=user_id): the defaults of the dataclass
UserProfile ==
    [name |-> "", nickname |-> "", traits |-> << >>, facts |-> << >>,
     interaction_count |-> 0]

\* _get_profile_unlocked: _profiles after the call (it creates the profile)
GetProfileUnlocked(user_id) ==
    IF user_id \in DOMAIN profiles THEN profiles
    ELSE DictSet(profiles, user_id, UserProfile)

\* what a reader takes away: its copy of the fields under _lock
NoObservation == [interaction_count |-> None, nickname |-> ""]
Observation(profile) ==
    [interaction_count |-> profile.interaction_count,
     nickname |-> profile.nickname]

\* a file: absent, partly written, or a complete JSON document
AbsentFile == [written |-> "absent", data |-> EmptyDict]
PartialFile == [written |-> "partial", data |-> EmptyDict]
CompleteFile(snapshot) == [written |-> "complete", data |-> snapshot]

ProfileIdle ==
    [pc |-> "idle", op |-> "none", user_id |-> "", arg |-> "", arg2 |-> "",
     snapshot |-> EmptyDict, obs |-> NoObservation, saves |-> 0, calls |-> 0,
     failed |-> 0]

\* UserProfileStore.__init__ on a fresh data directory, with the given
\* worker threads
ProfileInit(threads) ==
    /\ profiles = EmptyDict
    /\ lock = Free
    /\ save_lock = Free
    /\ prof = [t \in threads |-> ProfileIdle]
    /\ files = [path |-> AbsentFile, tmp |-> AbsentFile]
    /\ crashed = FALSE
    /\ ncalls = 0

\* the profile store is not part of the specification
ProfilesOff == ProfileInit({})

ProfileThreads == DOMAIN prof

\* list.remove(v): the list without the first v
RECURSIVE ListRemove(_, _)
ListRemove(s, v) ==
    IF s = << >> THEN << >>
    ELSE IF Head(s) = v THEN Tail(s)
    ELSE << Head(s) >> \o ListRemove(Tail(s), v)

\* the loop of update_fact: the first old_fact becomes new_fact
RECURSIVE ReplaceFirst(_, _, _)
ReplaceFirst(s, old, new) ==
    IF s = << >> THEN << >>
    ELSE IF Head(s) = old THEN << new >> \o Tail(s)
    ELSE << Head(s) >> \o ReplaceFirst(Tail(s), old, new)

\* mutant of NotIn: the membership test of add_trait always passes
AlwaysNotIn(v, s) == TRUE

\* v not in s
NotIn(v, s) == v \notin SeqToSet(s)

\* a thread calls a method of the store
ProfileCall(t, op, user_id, arg, arg2) ==
    /\ ~crashed
    /\ prof[t].pc = "idle"
    /\ ncalls < MaxCalls
    /\ ncalls' = ncalls + 1
    /\ prof' = [prof EXCEPT ![t] =
           [ProfileIdle EXCEPT !.pc = "wait", !.op = op, !.user_id = user_id,
                               !.arg = arg, !.arg2 = arg2,
                               !.calls = prof[t].calls,
                               !.failed = prof[t].failed]]
    /\ UNCHANGED << profiles, lock, save_lock, files, crashed >>

\* with self._lock:
AcquireLock(t) ==
    /\ ~crashed
    /\ prof[t].pc = "wait"
    /\ lock = Free
    /\ lock' = t
    /\ prof' = [prof EXCEPT ![t].pc = "locked"]
    /\ UNCHANGED << profiles, save_lock, files, crashed, ncalls >>

\* get_profile and get_profile_prompt under _lock
ProfileRead(t) ==
    /\ ~crashed
    /\ prof[t].pc = "locked"
    /\ prof[t].op \in Readers
    /\ profiles' = GetProfileUnlocked(prof[t].user_id)
    /\ prof' = [prof EXCEPT ![t].pc = "unlock",
                            ![t].obs = Observation(profiles'[prof[t].user_id])]
    /\ UNCHANGED << lock, save_lock, files, crashed, ncalls >>

\* the profile after update_profile(name=...), add_trait, remove_trait,
\* add_fact, update_fact or remove_fact
Applied(p, op, arg, arg2) ==
    IF op = "update_profile" THEN [p EXCEPT !.name = arg]
    ELSE IF op = "add_trait"
    THEN [p EXCEPT !.traits = IF NotIn(arg, @) THEN Append(@, arg) ELSE @]
    ELSE IF op = "remove_trait" THEN [p EXCEPT !.traits = ListRemove(@, arg)]
    ELSE IF op = "add_fact"
    THEN [p EXCEPT !.facts = IF arg \notin SeqToSet(@) THEN Append(@, arg) ELSE @]
    ELSE IF op = "update_fact" THEN [p EXCEPT !.facts = ReplaceFirst(@, arg, arg2)]
    ELSE IF op = "remove_fact" THEN [p EXCEPT !.facts = ListRemove(@, arg)]
    ELSE p

\* whether the method goes on to _save: update_profile always does, the
\* others when their test passed
Persists(p, op, arg) ==
    IF op = "update_profile" THEN TRUE
    ELSE IF op = "add_trait" THEN NotIn(arg, p.traits)
    ELSE IF op = "remove_trait" THEN arg \in SeqToSet(p.traits)
    ELSE IF op = "add_fact" THEN arg \notin SeqToSet(p.facts)
    ELSE arg \in SeqToSet(p.facts)

\* a mutator other than increment_and_update_profile, under _lock
ProfileMutate(t) ==
    /\ ~crashed
    /\ prof[t].pc = "locked"
    /\ prof[t].op \in {"update_profile", "update_fact"} \cup TraitOps \cup FactOps
    /\ LET u == prof[t]
           before == GetProfileUnlocked(u.user_id)
           p == before[u.user_id]
       IN /\ profiles' = [before EXCEPT ![u.user_id] = Applied(p, u.op, u.arg, u.arg2)]
          /\ prof' = [prof EXCEPT ![t] =
                 IF Persists(p, u.op, u.arg)
                 THEN [u EXCEPT !.pc = "save", !.snapshot = profiles']
                 ELSE [u EXCEPT !.pc = "unlock"]]
    /\ UNCHANGED << lock, save_lock, files, crashed, ncalls >>

\* mutant of HeldAcross: _lock is let go after the count was raised
ReleasedBetween(t) == Free

\* increment_and_update_profile: one with-block spans the increment and the
\* setattr loop, so _lock stays with the thread between them
HeldAcross(t) == t

\* increment_and_update_profile: profile.interaction_count += 1
ProfileIncrement(t) ==
    /\ ~crashed
    /\ prof[t].pc = "locked"
    /\ prof[t].op = "increment_and_update_profile"
    /\ LET before == GetProfileUnlocked(prof[t].user_id)
       IN profiles' = [before EXCEPT ![prof[t].user_id].interaction_count = @ + 1]
    /\ prof' = [prof EXCEPT ![t].pc = "setattr", ![t].calls = @ + 1]
    /\ lock' = HeldAcross(t)
    /\ UNCHANGED << save_lock, files, crashed, ncalls >>

\* increment_and_update_profile: the setattr loop and the snapshot
ProfileSetFields(t) ==
    /\ ~crashed
    /\ prof[t].pc = "setattr"
    /\ profiles' = [profiles EXCEPT ![prof[t].user_id].nickname = prof[t].arg]
    /\ prof' = [prof EXCEPT ![t].pc = "save", ![t].snapshot = profiles']
    /\ UNCHANGED << lock, save_lock, files, crashed, ncalls >>

\* mutant of LockDuringSave: _lock is let go once the snapshot is built,
\* before _save_lock is taken
LockReleasedForSave(t) == Free

\* the with-block of _save_lock is nested in the with-block of _lock, so
\* _lock stays with the thread while it saves
LockDuringSave(t) == t

\* with self._save_lock: self._save(snapshot)
AcquireSaveLock(t) ==
    /\ ~crashed
    /\ prof[t].pc = "save"
    /\ save_lock = Free
    /\ save_lock' = t
    /\ lock' = LockDuringSave(t)
    /\ prof' = [prof EXCEPT ![t].pc = "mkstemp", ![t].saves = @ + 1]
    /\ UNCHANGED << profiles, files, crashed, ncalls >>

\* mutant of SaveTarget: the document is written to the profile path itself
SaveInPlace == "path"

\* _save writes the document to a temporary file in the same directory
SaveTarget == "tmp"

\* _save: tempfile.mkstemp creates the file, still empty
SaveMkstemp(t) ==
    /\ ~crashed
    /\ prof[t].pc = "mkstemp"
    /\ files' = [files EXCEPT ![SaveTarget] = PartialFile]
    /\ prof' = [prof EXCEPT ![t].pc = "dump"]
    /\ UNCHANGED << profiles, lock, save_lock, crashed, ncalls >>

\* _save: json.dump, flush and fsync; when they raise, the finally clause
\* removes the temporary file and _save returns
SaveDump(t, io_ok) ==
    /\ ~crashed
    /\ prof[t].pc = "dump"
    /\ IF io_ok
       THEN /\ files' = [files EXCEPT ![SaveTarget] = CompleteFile(prof[t].snapshot)]
            /\ prof' = [prof EXCEPT ![t].pc = "replace"]
       ELSE /\ files' = [files EXCEPT !["tmp"] = AbsentFile]
            /\ prof' = [prof EXCEPT ![t].pc = "unsave", ![t].failed = @ + 1]
    /\ UNCHANGED << profiles, lock, save_lock, crashed, ncalls >>

\* _save: os.replace(tmp_path, self.path), atomic
SaveReplace(t) ==
    /\ ~crashed
    /\ prof[t].pc = "replace"
    /\ files' = [path |-> files[SaveTarget], tmp |-> AbsentFile]
    /\ prof' = [prof EXCEPT ![t].pc = "unsave"]
    /\ UNCHANGED << profiles, lock, save_lock, crashed, ncalls >>

\* the end of the block of _save_lock
ReleaseSaveLock(t) ==
    /\ ~crashed
    /\ prof[t].pc = "unsave"
    /\ save_lock' = Free
    /\ prof' = [prof EXCEPT ![t].pc = "unlock"]
    /\ UNCHANGED << profiles, lock, files, crashed, ncalls >>

\* the end of the block of _lock; the method returns
ReleaseLock(t) ==
    /\ ~crashed
    /\ prof[t].pc = "unlock"
    /\ lock' = Free
    /\ prof' = [prof EXCEPT ![t].pc = "idle"]
    /\ UNCHANGED << profiles, save_lock, files, crashed, ncalls >>

\* the process dies; the files stay as they are
Crash ==
    /\ ~crashed
    /\ \E t \in ProfileThreads : prof[t].pc # "idle"
    /\ crashed' = TRUE
    /\ UNCHANGED << profiles, lock, save_lock, prof, files, ncalls >>

\* the parts that the specifications of the memory manager and of the
\* vector store leave alone are in their initial state
----------------------------------------------------------------------------
\* MemoryManager.recall and the memory_search tool

\* the k argument: << n >> for the number n, << >> for a value that int()
\* refuses (TypeError or ValueError)
RecallKs == {<< >>, << -1 >>, << 0 >>, << 1 >>, << 5 >>}

\* what embed returns, by the length of the first vector: None = embed
\* raised, 0 = no vector
EmbedResults == {None, 0} \cup CallerDims

NoRecall == [pc |-> "idle", arg |-> << >>, k |-> 0, dim |-> None,
             external |-> FALSE, path |-> "none", ret |-> {}]

\* mutant of CoercedK: k is converted, but not raised to 1
ConvertedK(k) == IF k = << >> THEN 5 ELSE k[1]

\* recall: k = int(k), 5 when that raises, then max(1, k)
CoercedK(k) == Max(1, IF k = << >> THEN 5 ELSE k[1])

\* recall up to the awaited embed: without a client embed is not called
RecallStart(k, embedded) ==
    /\ recall_call.pc \in {"idle", "done"}
    /\ LET dim == IF llm_client THEN embedded ELSE None IN
       recall_call' = [pc |-> IF dim # None /\ dim # 0
                              THEN "embedding_search" ELSE "fallback",
                       arg |-> k, k |-> CoercedK(k), dim |-> dim,
                       external |-> FALSE, path |-> "none", ret |-> {}]

\* recall: the search by the embedding, in a worker thread, returns
RecallEmbeddingSearch(hits, backend_ok) ==
    /\ recall_call.pc = "embedding_search"
    /\ hits \in QueryResults("", "", recall_call.k)
    /\ Search(recall_call.dim, "", "", recall_call.k, hits, TRUE, backend_ok)
    /\ recall_call' = [recall_call EXCEPT !.pc = "done", !.path = "embedding",
                                          !.ret = vs_call'.ret]

\* recall: the search by the embedding raises; the exception is logged and
\* recall goes on to the statements after the block
RecallEmbeddingSearchRaises(hits, done) ==
    /\ recall_call.pc = "embedding_search"
    /\ hits \in QueryResults("", "", recall_call.k)
    /\ SearchUpdateRaises(recall_call.dim, "", "", recall_call.k, hits, done)
    /\ recall_call' = [recall_call EXCEPT !.pc = "fallback"]

\* recall: the statements after the embedding block: a search by the query
\* text unless the store holds vectors from outside, then []
RecallFallback(hits, backend_ok) ==
    /\ recall_call.pc = "fallback"
    /\ IF ~has_external_embeddings
       THEN /\ hits \in QueryResults("", "", recall_call.k)
            /\ Search(None, "", "", recall_call.k, hits, TRUE, backend_ok)
            /\ recall_call' = [recall_call EXCEPT !.pc = "done", !.path = "text",
                                                  !.ret = vs_call'.ret]
       ELSE /\ hits = {}
            /\ backend_ok
            /\ UNCHANGED store_vars
            /\ recall_call' = [recall_call EXCEPT !.pc = "done", !.external = TRUE,
                                                  !.path = "skipped", !.ret = {}]

\* recall: the search by the query text raises; recall logs it and returns []
RecallFallbackRaises(hits, done) ==
    /\ recall_call.pc = "fallback"
    /\ ~has_external_embeddings
    /\ hits \in QueryResults("", "", recall_call.k)
    /\ SearchUpdateRaises(None, "", "", recall_call.k, hits, done)
    /\ recall_call' = [recall_call EXCEPT !.pc = "done", !.path = "text_raised",
                                          !.ret = {}]

\* MemorySearchTool.execute up to its await of recall: a k that int()
\* refuses or a k <= 0 is answered with an error and recall is not called
MemorySearch(k, embedded) ==
    IF k = << >> \/ k[1] <= 0
    THEN /\ recall_call.pc \in {"idle", "done"}
         /\ tool_call' = [op |-> "memory_search", index |-> None,
                          ret |-> "Error: k must be a positive integer"]
         /\ UNCHANGED recall_call
    ELSE /\ RecallStart(k, embedded)
         /\ tool_call' = [op |-> "memory_search", index |-> None, ret |-> ""]

----------------------------------------------------------------------------
\* The tool calls as coroutines on one event loop.  A call computes its
\* embedding, waits for MEMORY_IO_LOCK (an asyncio.Lock), and runs its block
\* under the lock; the block gives way to other coroutines where it awaits
\* the store.

ToolIdle ==
    [pc |-> "idle", op |-> "none", text |-> "", index |-> None,
     line_index |-> None, id |-> "", embed_ok |-> FALSE]

\* no call is running and core.txt is empty
ToolIo(callers) ==
    [lock |-> Free, calls |-> [t \in callers |-> ToolIdle], owners |-> << >>]

ToolCallers == DOMAIN tool_io.calls

ToolOps == {"memory_add", "memory_update", "memory_remove"}

\* execute() up to `async with MEMORY_IO_LOCK`: memory_add builds its entry
\* with a generated id, memory_add and memory_update compute the embedding
ToolBegin(t, op, text, index, embed_ok) ==
    /\ tool_io.calls[t].pc = "idle"
    /\ tool_io' = [tool_io EXCEPT !.calls[t] =
           [ToolIdle EXCEPT !.pc = "wait", !.op = op, !.text = text,
                            !.index = index, !.embed_ok = embed_ok,
                            !.id = IF op = "memory_add" THEN generate_id ELSE ""]]
    /\ minted' = IF op = "memory_add" THEN minted + 1 ELSE minted
    /\ UNCHANGED << searcher, updater, forgetter, forgotten, cycles, llm_client >>

\* mutant of LockFree: the lock is handed to every call that asks
LockIgnored == TRUE

\* the lock is not held
LockFree == tool_io.lock = Free

\* async with MEMORY_IO_LOCK: the call gets the lock
ToolAcquire(t) ==
    /\ tool_io.calls[t].pc = "wait"
    /\ LockFree
    /\ tool_io' = [tool_io EXCEPT !.lock = t, !.calls[t].pc = "locked"]

\* the call leaves the block and returns
Released(t) ==
    [tool_io EXCEPT !.lock = IF @ = t THEN Free ELSE @, !.calls[t] = ToolIdle]

\* memory_add under the lock, up to the await of add_memory: read core.txt,
\* line_index = the number of its lines, append the text
ToolAddLine(t) ==
    /\ tool_io.calls[t].pc = "locked"
    /\ tool_io.calls[t].op = "memory_add"
    /\ core_lines' = Append(core_lines, tool_io.calls[t].text)
    /\ tool_io' = [tool_io EXCEPT
           !.calls[t].pc = "store",
           !.calls[t].line_index = Len(core_lines),
           !.owners = Append(@, tool_io.calls[t].id)]
    /\ UNCHANGED << core_vector_map, tool_call >>

\* memory_add under the lock, from the await of add_memory on: the write
\* to the store, vmap[line_index] = entry.id when it succeeded, and the end
\* of the block
ToolAddStore(t, backend_ok) ==
    LET call == tool_io.calls[t]
    IN /\ call.pc = "store"
       /\ AddMemory(MemoryEntry(call.id, "", call.text, "fact", 5, now),
                    ToolEmbedding(call.embed_ok), backend_ok)
       /\ IF vs_call'.ret = "ok"
          THEN /\ core_vector_map' =
                      DictSet(core_vector_map, call.line_index, call.id)
               /\ tool_call' = [op |-> "memory_add", index |-> call.line_index,
                                ret |-> "Core memory added"]
          ELSE /\ UNCHANGED core_vector_map
               /\ tool_call' = [op |-> "memory_add", index |-> call.line_index,
                                ret |-> "vector store write failed"]
       /\ tool_io' = Released(t)
       /\ UNCHANGED << core_lines, engine_vars >>

\* memory_update under the lock, the whole block
ToolUpdateBlock(t, backend_ok) ==
    LET call == tool_io.calls[t]
    IN /\ call.pc = "locked"
       /\ call.op = "memory_update"
       /\ IF call.index \in LineIndexes
          THEN MemoryUpdate(call.index, call.text, call.embed_ok, backend_ok)
          ELSE backend_ok /\ OutOfRange("memory_update", call.index)
       /\ tool_io' = Released(t)

\* memory_remove under the lock, the whole block
ToolRemoveBlock(t, backend_ok) ==
    LET call == tool_io.calls[t]
    IN /\ call.pc = "locked"
       /\ call.op = "memory_remove"
       /\ IF call.index \in LineIndexes
          THEN /\ MemoryRemove(call.index, backend_ok)
               /\ tool_io' = [Released(t) EXCEPT !.owners = Popped(@, call.index)]
          ELSE /\ backend_ok /\ OutOfRange("memory_remove", call.index)
               /\ tool_io' = Released(t)

----------------------------------------------------------------------------
\* The hippocampus tasks and _on_background_task_done

\* how a task ends: _hippocampus_process returns (also after an Exception,
\* which it catches and logs), it ends with an exception that is not an
\* Exception, or it is cancelled
TaskOutcomes == {"finished", "raised", "cancelled"}

\* no _hippocampus_process has begun
NoBatch ==
    [pc |-> "none", user_id |-> "", chunks |-> << >>, facts |-> << >>,
     todo |-> << >>, reflections |-> 0, profiled |-> FALSE, outcome |-> "none",
     started |-> 0, extracted |-> {}, skipped |-> {}]

\* no task has been created
TasksOff == tasks = << >> /\ tracked = {} /\ batch = NoBatch /\ tool_io = ToolIo({})

\* _buffer_for_hippocampus with a running loop: create_task, the add to
\* _background_tasks under its lock and add_done_callback.  The three
\* statements run on the thread of the loop without an await, so the task
\* takes no step in between.
SpawnTracked(t) ==
    /\ SpawnTask(t)
    /\ tasks' = Append(tasks, [owner |-> t, state |-> "pending", callback |-> "none"])
    /\ tracked' = tracked \cup {Len(tasks) + 1}
    /\ UNCHANGED << batch, tool_io >>

\* the task ends, on its loop, while the thread of the loop is not inside
\* update_memory; the loop schedules the done callback
TaskEnds(i, outcome) ==
    /\ tasks[i].state = "pending"
    /\ pc[tasks[i].owner] = "idle"
    /\ tasks' = [tasks EXCEPT ![i].state = outcome, ![i].callback = "scheduled"]
    /\ UNCHANGED << tracked, batch, tool_io >>

\* mutant of CallbackResult: task.exception() is called on every task, and
\* raises CancelledError on a cancelled one
CallbackUnguarded(state) ==
    IF state = "raised" THEN "logged"
    ELSE IF state = "cancelled" THEN "CancelledError" ELSE "returned"

\* _on_background_task_done after the discard: return on a cancelled task,
\* else fetch the exception and log it when there is one
CallbackResult(state) ==
    IF state = "cancelled" THEN "returned"
    ELSE IF state = "raised" THEN "logged" ELSE "returned"

\* _on_background_task_done(task), called by the loop
TaskDoneCallback(i) ==
    /\ tasks[i].callback = "scheduled"
    /\ pc[tasks[i].owner] = "idle"
    /\ tracked' = tracked \ {i}
    /\ tasks' = [tasks EXCEPT ![i].callback = CallbackResult(tasks[i].state)]
    /\ UNCHANGED << batch, tool_io >>

\* no recall has been made and no task created
RecallOff == recall_call = NoRecall /\ TasksOff

RestOff == ToolsOff /\ ProfilesOff /\ RecallOff

----------------------------------------------------------------------------
\* One hippocampus batch (_hippocampus_process) step by step: the body of a
\* task that update_memory has spawned.  The batches run one after the other.

\* session.split(":", 2) of the two sessions
SplitSession(session) == IF session = "qq:pm:1" THEN PmSession ELSE GmSession

\* a cleaned fact of _extract_facts
Fact(content, importance) == [content |-> content, importance |-> importance]

\* what _extract_facts returns: [] (also after a failed chat call or an
\* answer that is no list), or two facts of which the first goes to the
\* profile as well
FactLists == {<< >>, << Fact("a", 8), Fact("b", 5) >>}

\* the chunks of a task, each with its session
BatchChunks(task) ==
    {<< task.session, task.chunks[i] >> : i \in 1..Len(task.chunks)}

\* set_llm_client(llm_client) with a client
SetLlmClient ==
    /\ llm_client' = TRUE
    /\ UNCHANGED << searcher, updater, forgetter, forgotten, minted, cycles >>

\* mutant of ClientMissing: the batch goes on without a client
ClientNeverMissing == FALSE

\* if not self._llm_client
ClientMissing == ~llm_client

\* _hippocampus_process(session, chunks) up to the loop over the facts: the
\* return without a client, _chunks_to_text and _extract_facts, the return
\* without facts, _extract_user_id_from_session
HippocampusProcess(facts) ==
    /\ batch.pc \in {"none", "done"}
    /\ batch.started < Len(background_tasks)
    /\ LET task == background_tasks[batch.started + 1]
           begun == [NoBatch EXCEPT
                        !.started = batch.started + 1,
                        !.extracted = batch.extracted,
                        !.skipped = batch.skipped,
                        !.chunks = task.chunks]
       IN batch' =
              IF ClientMissing
              THEN [begun EXCEPT !.pc = "done", !.outcome = "no_client",
                                 !.skipped = @ \cup BatchChunks(task)]
              ELSE [begun EXCEPT
                       !.extracted = @ \cup BatchChunks(task),
                       !.facts = facts,
                       !.todo = facts,
                       !.user_id = ExtractUserId(SplitSession(task.session)),
                       !.pc = IF facts = << >> THEN "done" ELSE "dedup",
                       !.outcome = IF facts = << >> THEN "no_facts" ELSE "running"]

\* what Collection.upsert raises when it fails: chromadb raises ValueError
\* from its validation and other exceptions from the backend
UpsertErrors == {"ValueError", "Exception"}

\* _merge_facts: the answer of the LLM, or the two texts joined after a
\* failed call
Merged(existing, new, chat_ok) ==
    IF chat_ok THEN MergedContent ELSE existing \o ";" \o new

\* mutant of MergedImportance: the importance of the new fact wins
MergedImportanceNew(importance, old) == importance

\* the importance a merge asks for
MergedImportance(importance, old) == Max(importance, old)

\* mutant of SkipsDuplicate: a duplicate is stored like a new fact
NeverSkipsDuplicate(decision) == FALSE

\* decision == "duplicate": return
SkipsDuplicate(decision) == decision = "duplicate"

\* _deduplicate_and_store(fact, user_id) for the next fact of the loop.
\* similar is most_similar, the first hit of the search with the embedding
\* of the content ("" = no hit: no embedding, a search that failed or
\* nothing near enough); decision is the answer of _check_conflict ("new"
\* also after a failed call); kind is what a failing upsert raises.  The
\* search runs with update_access=False and writes nothing.
DeduplicateAndStore(embed_ok, similar, decision, chat_ok, again_ok, backend_ok, kind) ==
    /\ batch.pc = "dedup" /\ batch.todo # << >>
    /\ LET fact == Head(batch.todo)
           initial_embedding == ToolEmbedding(embed_ok)
           go_on == [batch EXCEPT
                        !.todo = Tail(@),
                        !.pc = IF Tail(batch.todo) = << >> THEN "reflect"
                               ELSE "dedup"]
       IN /\ similar # "" =>
                /\ initial_embedding # None
                /\ CollectionAccepts(initial_embedding)
                /\ similar \in Matching(batch.user_id, "fact")
          /\ IF fact.content = "" \/ (similar # "" /\ SkipsDuplicate(decision))
             THEN /\ batch' = go_on
                  /\ UNCHANGED << store_vars, minted >>
             ELSE IF similar # "" /\ decision = "update"
             THEN /\ UpdateMemory(similar,
                                  Merged(collection[similar].document,
                                         fact.content, chat_ok),
                                  MergedImportance(
                                      fact.importance,
                                      collection[similar].metadata.importance),
                                  None, ToolEmbedding(again_ok), backend_ok)
                  /\ batch' = go_on
                  /\ UNCHANGED minted
             ELSE /\ AddMemory(MemoryEntry(generate_id, batch.user_id,
                                           fact.content, "fact",
                                           fact.importance, now),
                               IF initial_embedding # None THEN initial_embedding
                               ELSE ToolEmbedding(again_ok),
                               backend_ok)
                  /\ minted' = minted + 1
                  \* except ValueError: anything else ends the batch in the
                  \* except Exception of _hippocampus_process
                  /\ batch' = IF vs_call'.ret = "raise" /\ kind = "Exception"
                              THEN [batch EXCEPT !.pc = "done",
                                                 !.outcome = "error"]
                              ELSE go_on
    /\ UNCHANGED << searcher, updater, forgetter, forgotten, cycles, llm_client >>

\* the least number of facts of the user for a reflection
ReflectionMinFacts == 5

\* the limit of get_by_user(user_id, "fact", 10)
ReflectionLimit == 10

\* mutant of EnoughFacts: one fact more is needed
MoreThanEnoughFacts(n) == n > ReflectionMinFacts

\* if len(user_memories) >= 5
EnoughFacts(n) == n >= ReflectionMinFacts

\* the reflection step of _hippocampus_process: get_by_user (a failed get
\* is []) and, with enough facts, _generate_reflection: one chat call and,
\* for the insight it answers, the embedding, the search for a similar
\* reflection (exists) and add_memory.  _generate_reflection catches what
\* its calls raise.
GenerateReflection(get_ok, chat_ok, embed_ok, exists, backend_ok) ==
    /\ batch.pc = "reflect"
    /\ get_ok \/ backend_ok
    /\ LET user_memories ==
               IF get_ok
               THEN Min(ReflectionLimit,
                        Cardinality(Matching(batch.user_id, "fact")))
               ELSE 0
           embedding == ToolEmbedding(embed_ok)
       IN /\ exists =>
                /\ embedding # None
                /\ CollectionAccepts(embedding)
                /\ Matching(batch.user_id, "reflection") # {}
          /\ IF EnoughFacts(user_memories)
             THEN /\ batch' = [batch EXCEPT !.pc = "profile",
                                            !.reflections = @ + 1]
                  /\ IF chat_ok /\ ~exists
                     THEN /\ AddMemory(MemoryEntry(generate_id, batch.user_id,
                                                   "r", "reflection", 7, now),
                                       embedding, backend_ok)
                          /\ minted' = minted + 1
                     ELSE UNCHANGED << store_vars, minted >>
             ELSE /\ batch' = [batch EXCEPT !.pc = "profile"]
                  /\ UNCHANGED << store_vars, minted >>
    /\ UNCHANGED << searcher, updater, forgetter, forgotten, cycles, llm_client >>

\* _update_profile_from_facts: add_fact for the facts of importance 7 and
\* above, each call of add_fact as a whole (no other thread is in the store)
RECURSIVE ProfilesAfter(_, _, _)
ProfilesAfter(ps, user_id, facts) ==
    IF facts = << >> THEN ps
    ELSE LET got == IF user_id \in DOMAIN ps THEN ps
                    ELSE DictSet(ps, user_id, UserProfile)
         IN ProfilesAfter(IF Head(facts).importance >= 7
                          THEN [got EXCEPT ![user_id] =
                                   Applied(@, "add_fact", Head(facts).content, "")]
                          ELSE ps,
                          user_id, Tail(facts))

\* the last step of _hippocampus_process
UpdateProfileFromFacts ==
    /\ batch.pc = "profile"
    /\ profiles' = ProfilesAfter(profiles, batch.user_id, batch.facts)
    /\ files' = IF profiles' # profiles
                THEN [files EXCEPT !.path = CompleteFile(profiles')]
                ELSE files
    /\ batch' = [batch EXCEPT !.pc = "done", !.profiled = TRUE,
                              !.outcome = "completed"]
    /\ UNCHANGED << lock, save_lock, prof, crashed, ncalls >>

----------------------------------------------------------------------------
\* Specifications

\* Session memory: one caller issues any sequence of the session operations
SessionInit == MemInit({1}, {}) /\ RestOff /\ StoreInit({"None"}) /\ EngineOff

SessionNext ==
    \/ \E s \in Sessions : LazyCreate(s) /\ UNCHANGED << store_vars, engine_vars, failures, rest_vars >>
    \/ \E s \in Sessions, n \in 0..MaxWriteLen :
           WriteMemory(s, Repeat(WrittenChunk, n)) /\ UNCHANGED << store_vars, engine_vars, failures, rest_vars >>
    \/ \E s \in Sessions : DeleteSession(s) /\ UNCHANGED << store_vars, engine_vars, failures, rest_vars >>
    \/ \E s \in Sessions : UpdateSessionInfo(s) /\ UNCHANGED << store_vars, engine_vars, failures, rest_vars >>
    \/ \E t \in Callers, s \in Sessions : UpdateMemoryAppend(t, s) /\ UNCHANGED << store_vars, engine_vars, failures, rest_vars >>
    \/ \E t \in Callers : BufferAppend(t) /\ UNCHANGED << store_vars, engine_vars, failures, rest_vars >>
    \/ \E t \in Callers : SpawnTask(t) /\ UNCHANGED << store_vars, engine_vars, failures, rest_vars >>
    \/ \E t \in Callers : RestoreChunks(t) /\ UNCHANGED << store_vars, engine_vars, failures, rest_vars >>

SessionSpec == SessionInit /\ [][SessionNext]_vars

\* Hippocampus buffer: several threads run update_memory concurrently on
\* sessions that exist.  write_memory and delete_session touch neither the
\* buffer nor the tasks, so they are left out of this specification.
HippoInit == MemInit(Threads, Sessions) /\ RestOff /\ StoreInit({"None"}) /\ EngineOff

HippoNext ==
    \/ \E t \in Callers, s \in Sessions : UpdateMemoryAppend(t, s) /\ UNCHANGED << store_vars, engine_vars, failures, rest_vars >>
    \/ \E t \in Callers : BufferAppend(t) /\ UNCHANGED << store_vars, engine_vars, failures, rest_vars >>
    \/ \E t \in Callers : SpawnTask(t) /\ UNCHANGED << store_vars, engine_vars, failures, rest_vars >>
    \/ \E t \in Callers : RestoreChunks(t) /\ UNCHANGED << store_vars, engine_vars, failures, rest_vars >>

HippoSpec == HippoInit /\ [][HippoNext]_vars

\* Vector store: callers issue any sequence of VectorStore operations (the
\* clock stands still: no claim checked here depends on the passing of time)
StoreSpecInit == MemInit({}, {}) /\ RestOff /\ StoreInit(EmbeddingFuncs) /\ EngineOff

StoreNext ==
    \/ \E id \in VecIds, c \in Contents, e \in EmbeddingArgs, ok \in BOOLEAN :
           /\ AddMemory(MemoryEntry(id, "qq:1", c, "fact", 5, 1), e, ok)
           /\ UNCHANGED << mem_vars, engine_vars, failures, rest_vars >>
    \/ \E q \in {None} \cup CallerDims, k \in {1, 5}, ua \in BOOLEAN,
          hits \in SUBSET VecIds, ok \in BOOLEAN :
           /\ hits \subseteq DOMAIN collection
           /\ \A id \in hits : ua => collection[id].metadata.access_count < MaxAccess
           /\ Search(q, "", "", k, hits, ua, ok)
           /\ UNCHANGED << mem_vars, engine_vars, failures, rest_vars >>
    \/ \E q \in {None} \cup CallerDims, k \in {1, 5},
          hits \in SUBSET DOMAIN collection :
        \E done \in SUBSET hits :
           /\ \A id \in done : collection[id].metadata.access_count < MaxAccess
           /\ SearchUpdateRaises(q, "", "", k, hits, done)
           /\ UNCHANGED << mem_vars, engine_vars, failures, rest_vars >>
    \/ \E id \in VecIds, c \in Contents \cup {NoContent},
          kw \in {<< None, None >>, << 4, None >>, << None, 0 >>},
          e \in EmbeddingArgs, ok \in BOOLEAN :
           /\ UpdateMemory(id, c, kw[1], kw[2], e, ok)
           /\ UNCHANGED << mem_vars, engine_vars, failures, rest_vars >>
    \/ \E id \in VecIds, ok \in BOOLEAN :
           DeleteMemory(id, ok) /\ UNCHANGED << mem_vars, engine_vars, failures, rest_vars >>

StoreSpec == StoreSpecInit /\ [][StoreNext]_vars

\* recall and memory_search on a store that add_memory fills, with and
\* without a client for the embeddings
RecallInit ==
    /\ MemInit({}, {}) /\ RestOff /\ StoreInit({"None"})
    /\ EngineIdle({}) /\ minted = 0 /\ llm_client \in BOOLEAN /\ failures = 0

beside_recall == << mem_vars, engine_vars, failures, profile_vars, task_vars >>

RecallNext ==
    \/ \E id \in VecIds, e \in {None} \cup CallerDims :
           /\ AddMemory(MemoryEntry(id, "qq:1", "a", "fact", 5, 1), e, TRUE)
           /\ UNCHANGED << beside_recall, tool_vars, recall_call >>
    \/ \E k \in RecallKs, embedded \in EmbedResults :
           /\ RecallStart(k, embedded)
           /\ UNCHANGED << beside_recall, tool_vars, store_vars >>
    \/ \E k \in RecallKs, embedded \in EmbedResults :
           /\ MemorySearch(k, embedded)
           /\ UNCHANGED << beside_recall, core_lines, core_vector_map, store_vars >>
    \/ \E hits \in SUBSET DOMAIN collection, ok \in BOOLEAN :
           /\ \A id \in hits : collection[id].metadata.access_count < MaxAccess
           /\ RecallEmbeddingSearch(hits, ok)
           /\ UNCHANGED << beside_recall, tool_vars >>
    \/ \E hits \in SUBSET DOMAIN collection : \E done \in SUBSET hits :
           /\ \A id \in done : collection[id].metadata.access_count < MaxAccess
           /\ RecallEmbeddingSearchRaises(hits, done)
           /\ UNCHANGED << beside_recall, tool_vars >>
    \/ \E hits \in SUBSET DOMAIN collection, ok \in BOOLEAN :
           /\ \A id \in hits : collection[id].metadata.access_count < MaxAccess
           /\ RecallFallback(hits, ok)
           /\ UNCHANGED << beside_recall, tool_vars >>
    \/ \E hits \in SUBSET DOMAIN collection : \E done \in SUBSET hits :
           /\ \A id \in done : collection[id].metadata.access_count < MaxAccess
           /\ RecallFallbackRaises(hits, done)
           /\ UNCHANGED << beside_recall, tool_vars >>

RecallSpec == RecallInit /\ [][RecallNext]_vars

\* add_memory in every mode, with lookups by id in between
RoundTripNext ==
    \/ \E id \in VecIds, c \in Contents, importance \in {1, 5}, e \in EmbeddingArgs,
          ok \in BOOLEAN :
           /\ AddMemory(MemoryEntry(id, "qq:1", c, "fact", importance, now), e, ok)
           /\ UNCHANGED << mem_vars, engine_vars, failures, rest_vars >>
    \/ \E id \in VecIds, ok \in BOOLEAN :
           GetMemoryById(id, ok) /\ UNCHANGED << mem_vars, engine_vars, failures, rest_vars >>
    \/ \E id \in VecIds :
           DeleteMemory(id, TRUE) /\ UNCHANGED << mem_vars, engine_vars, failures, rest_vars >>

RoundTripSpec == StoreSpecInit /\ [][RoundTripNext]_vars

\* update_memory on a loop thread, with the tasks it spawns: both sessions
\* start with two chunks that earlier calls have buffered
Backlog == << -2, -1 >>

TaskInit ==
    /\ chat_memory = [s \in Sessions |-> Backlog]
    /\ chat_memory_file = chat_memory
    /\ pending_conversations = [s \in Sessions |-> Backlog]
    /\ arrival = [s \in Sessions |-> Backlog]
    /\ background_tasks = << >>
    /\ loop_running = [t \in {1} |-> TRUE]
    /\ pc = [t \in {1} |-> "idle"]
    /\ call_session = [t \in {1} |-> ""]
    /\ call_chunk = [t \in {1} |-> 0]
    /\ chunks_to_process = [t \in {1} |-> << >>]
    /\ next_chunk = 0
    /\ RestOff /\ StoreInit({"None"}) /\ EngineOff

beside_tasks == << store_vars, engine_vars, failures, tool_vars, profile_vars,
                  recall_call >>

TaskCalls ==
    \/ \E t \in Callers, s \in Sessions :
           UpdateMemoryAppend(t, s) /\ UNCHANGED << beside_tasks, task_vars >>
    \/ \E t \in Callers : BufferAppend(t) /\ UNCHANGED << beside_tasks, task_vars >>
    \/ \E t \in Callers : SpawnTracked(t) /\ UNCHANGED beside_tasks

TaskCallbacks ==
    \E i \in DOMAIN tasks :
        TaskDoneCallback(i) /\ UNCHANGED << mem_vars, beside_tasks >>

TaskNext ==
    \/ TaskCalls
    \/ \E i \in DOMAIN tasks, outcome \in TaskOutcomes :
           TaskEnds(i, outcome) /\ UNCHANGED << mem_vars, beside_tasks >>
    \/ TaskCallbacks

\* the thread goes on through update_memory, and a running loop calls the
\* callbacks it has scheduled
TaskSpec ==
    TaskInit /\ [][TaskNext]_vars /\ WF_vars(TaskCalls) /\ WF_vars(TaskCallbacks)

\* Hippocampus batches: update_memory on the loop thread spawns the tasks of
\* the private session, and their bodies run on the loop one after the
\* other, while the thread is not inside update_memory.
SeedFacts ==
    << Stored("a", "fact", 6, 0), Stored("c", "fact", 6, 0),
       Stored("d", "fact", 6, 0), Stored("e", "fact", 6, 0) >>

\* the loop thread with a backlog of two chunks in each buffer, and a store
\* that holds no fact or the four facts of the private user
BatchInit(client) ==
    /\ chat_memory = [s \in Sessions |-> Backlog]
    /\ chat_memory_file = chat_memory
    /\ pending_conversations = [s \in Sessions |-> Backlog]
    /\ arrival = [s \in Sessions |-> Backlog]
    /\ background_tasks = << >>
    /\ loop_running = [t \in {1} |-> TRUE]
    /\ pc = [t \in {1} |-> "idle"]
    /\ call_session = [t \in {1} |-> ""]
    /\ call_chunk = [t \in {1} |-> 0]
    /\ chunks_to_process = [t \in {1} |-> << >>]
    /\ next_chunk = 0
    /\ RestOff
    /\ EngineIdle({})
    /\ llm_client = client
    /\ failures = 0
    /\ \/ StoreInit({"None"}) /\ minted = 0
       \/ Seeded(SeedFacts, {1})

beside_batch == << mem_vars, tool_vars, profile_vars, recall_call, tasks, tracked,
                  tool_io >>

BatchCalls ==
    \/ \E t \in Callers :
           UpdateMemoryAppend(t, "qq:pm:1")
           /\ UNCHANGED << store_vars, engine_vars, failures, rest_vars >>
    \/ \E t \in Callers :
           BufferAppend(t) /\ UNCHANGED << store_vars, engine_vars, failures, rest_vars >>
    \/ \E t \in Callers :
           SpawnTask(t) /\ UNCHANGED << store_vars, engine_vars, failures, rest_vars >>

\* the first hit of the search of _deduplicate_and_store: none, or the
\* oldest fact of the user
FirstHits ==
    LET facts == InOrder(Matching(batch.user_id, "fact"), 1)
    IN  {""} \cup (IF facts = << >> THEN {} ELSE {Head(facts)})

BatchStep ==
    \/ \E facts \in FactLists :
           HippocampusProcess(facts)
           /\ UNCHANGED << store_vars, engine_vars, failures, beside_batch >>
    \/ \E embed_ok \in BOOLEAN, similar \in FirstHits,
          decision \in {"duplicate", "update", "new"}, chat_ok \in BOOLEAN,
          again_ok \in BOOLEAN, ok \in BackendOutcomes, kind \in UpsertErrors :
           /\ DeduplicateAndStore(embed_ok, similar, decision, chat_ok, again_ok,
                                  ok, kind)
           /\ Counted(ok) /\ UNCHANGED beside_batch
    \/ \E get_ok \in BackendOutcomes, chat_ok \in BOOLEAN, embed_ok \in BOOLEAN,
          exists \in BOOLEAN, ok \in BackendOutcomes :
           /\ GenerateReflection(get_ok, chat_ok, embed_ok, exists, ok)
           /\ Counted(get_ok /\ ok) /\ UNCHANGED beside_batch
    \/ /\ UpdateProfileFromFacts
       /\ UNCHANGED << mem_vars, store_vars, engine_vars, failures, tool_vars,
                       recall_call, tasks, tracked, tool_io >>

\* the bodies of the tasks: the loop runs them between the calls
BatchSteps ==
    /\ \A t \in Callers : pc[t] = "idle"
    /\ BatchStep

BatchNext ==
    \/ BatchCalls
    \/ BatchSteps

\* the batches of a manager whose LLM client is set
BatchSpecInit == BatchInit(TRUE)

BatchSpec == BatchSpecInit /\ [][BatchNext]_vars

\* The batches of a manager that gets its LLM client late: set_llm_client
\* comes at any time, the LLM and the store answer without faults, and a
\* batch with a client extracts one fact of importance 8
LateFacts == << Fact("a", 8) >>

LateClientNext ==
    \/ BatchCalls
    \/ /\ \A t \in Callers : pc[t] = "idle"
       /\ HippocampusProcess(LateFacts)
       /\ UNCHANGED << store_vars, engine_vars, failures, beside_batch >>
    \/ \E similar \in FirstHits, decision \in {"duplicate", "update", "new"} :
           /\ \A t \in Callers : pc[t] = "idle"
           /\ DeduplicateAndStore(TRUE, similar, decision, TRUE, TRUE, TRUE,
                                  "Exception")
           /\ UNCHANGED << failures, beside_batch >>
    \/ /\ \A t \in Callers : pc[t] = "idle"
       /\ GenerateReflection(TRUE, TRUE, TRUE, FALSE, TRUE)
       /\ UNCHANGED << failures, beside_batch >>
    \/ /\ \A t \in Callers : pc[t] = "idle"
       /\ UpdateProfileFromFacts
       /\ UNCHANGED << mem_vars, store_vars, engine_vars, failures, tool_vars,
                       recall_call, tasks, tracked, tool_io >>
    \/ SetLlmClient /\ UNCHANGED << mem_vars, store_vars, failures, rest_vars >>

LateClientInit == BatchInit(FALSE)

LateClientSpec == LateClientInit /\ [][LateClientNext]_vars

\* Concurrent recall: several searches run in worker threads on a store of
\* two facts that have not been accessed yet
Searchers == DOMAIN searcher

SearchRaceInit ==
    /\ MemInit({}, {}) /\ RestOff
    /\ EngineIdle(1..NSearchers)
    /\ llm_client = TRUE
    /\ failures = 0
    /\ Seeded(<< Stored("a", "fact", 5, 0), Stored("b", "fact", 5, 0) >>,
              1..RaceMaxTime)

SearchRaceNext ==
    \/ \E t \in Searchers, user_id \in Users \cup {""}, k \in {1, 2},
          results \in SUBSET Minted, ok \in BackendOutcomes :
           SearchQuery(t, EmbedDim, user_id, k, results, ok)
           /\ Counted(ok) /\ UNCHANGED << mem_vars, rest_vars >>
    \/ \E t \in Searchers, ok \in BackendOutcomes :
           SearchAccessUpdate(t, ok) /\ Counted(ok) /\ UNCHANGED << mem_vars, rest_vars >>

SearchRaceSpec == SearchRaceInit /\ [][SearchRaceNext]_vars

\* The forgetting cycle on its own.  The store holds one entry of any
\* importance and either type, stored at time 1 and accessed then, or five
\* facts of one user; the cycle starts then or later.
Importances == 1..10
SeedTypes == {"fact", "reflection"}
OldFactsSeed == [i \in 1..MinOldFacts |-> Stored("a", "fact", 10, 0)]
\* five facts of one user, then five facts of middling importance and one
\* fact of the least importance of a user in a group
TwoUsersSeed ==
    OldFactsSeed
    \o [i \in 1..MinOldFacts |-> StoredFor("qq:group:2", "a", "fact", 5, 0)]
    \o << StoredFor("qq:group:2", "b", "fact", 1, 0) >>

ForgetInit ==
    /\ MemInit({}, {}) /\ RestOff
    /\ EngineIdle({})
    /\ llm_client \in BOOLEAN
    /\ failures = 0
    /\ \/ \E importance \in Importances, memory_type \in SeedTypes,
             access_count \in 0..MaxAccess :
              Seeded(<< Stored("a", memory_type, importance, access_count) >>,
                     1..MaxTime)
       \/ Seeded(OldFactsSeed, 1..MaxTime)

ForgetSteps ==
    \/ \E ok \in BackendOutcomes : ForgetScan(ok) /\ Counted(ok) /\ UNCHANGED << mem_vars, rest_vars >>
    \/ \E ok \in BackendOutcomes : ForgetDelete(ok) /\ Counted(ok) /\ UNCHANGED << mem_vars, rest_vars >>
    \/ \E ok \in BackendOutcomes :
           ForgetDowngradeGet(ok) /\ Counted(ok) /\ UNCHANGED << mem_vars, rest_vars >>
    \/ \E ok \in BackendOutcomes :
           ForgetDowngradeCommit(ok) /\ Counted(ok) /\ UNCHANGED << mem_vars, rest_vars >>
    \/ ForgetKeep /\ UNCHANGED << mem_vars, failures, rest_vars >>
    \/ ForgetGroup /\ UNCHANGED << mem_vars, failures, rest_vars >>
    \/ \E lines \in 0..MaxSummaries :
           ForgetSummarize(lines) /\ UNCHANGED << mem_vars, failures, rest_vars >>
    \/ \E embed_ok \in BOOLEAN, ok \in BackendOutcomes :
           ForgetStoreSummary(embed_ok, ok) /\ Counted(ok) /\ UNCHANGED << mem_vars, rest_vars >>
    \/ \E ok \in BackendOutcomes :
           ForgetSwapDelete(ok) /\ Counted(ok) /\ UNCHANGED << mem_vars, rest_vars >>

ForgetNext ==
    \/ ForgetSteps
    \/ EngineTick(MaxTime) /\ UNCHANGED << mem_vars, failures, rest_vars >>

ForgetSpec == ForgetInit /\ [][ForgetNext]_vars

\* The paged scan of the forgetting cycle over stores of 0..MaxEntries
\* entries, while the memory tools delete entries between the pages
MaxEntries == 5

PageInit ==
    /\ MemInit({}, {}) /\ RestOff
    /\ EngineIdle({})
    /\ llm_client = FALSE
    /\ failures = 0
    /\ \E n \in 0..MaxEntries :
           Seeded([i \in 1..n |-> Stored("a", "fact", 5, 0)], {1})

PageNext ==
    \/ ForgetPagingStart /\ UNCHANGED << mem_vars, failures, rest_vars >>
    \/ \E ok \in BackendOutcomes :
           ForgetPage(ok) /\ Counted(ok) /\ UNCHANGED << mem_vars, rest_vars >>
    \/ \E id \in DOMAIN collection :
           /\ DeleteMemory(id, TRUE)
           /\ UNCHANGED << mem_vars, engine_vars, failures, rest_vars >>

PageSpec == PageInit /\ [][PageNext]_vars

\* The forgetting cycle with its summarization on the facts of one user or
\* of two users, at a time at which the clock stands still
SummaryInit ==
    /\ MemInit({}, {}) /\ RestOff
    /\ EngineIdle({})
    /\ llm_client = TRUE
    /\ failures = 0
    /\ \/ Seeded(OldFactsSeed, 1..RaceMaxTime)
       \/ Seeded(TwoUsersSeed, 1..RaceMaxTime)

SummaryNext == ForgetSteps

SummarySpec == SummaryInit /\ [][SummaryNext]_vars

\* The forgetting cycle with a recall and a hippocampus merge running beside
\* it in worker threads, at a time at which the clock (in units of 90 days)
\* stands still.  The recall's query and the merge are about the
\* first entry that was stored.
RaceImportances == {1, 5}
Targets == {IdSeq[1]}

ForgetRaceInit ==
    /\ MemInit({}, {}) /\ RestOff
    /\ EngineIdle({1})
    /\ llm_client = TRUE
    /\ failures = 0
    /\ \/ \E importance \in RaceImportances :
              Seeded(<< Stored("a", "fact", importance, 0) >>, 1..RaceMaxTime)
       \/ Seeded(OldFactsSeed, 1..RaceMaxTime)

ForgetRaceNext ==
    \/ ForgetSteps
    \/ \E t \in Searchers, id \in Targets, ok \in BackendOutcomes :
           SearchQuery(t, EmbedDim, "qq:1", 1, IF ok THEN {id} ELSE {}, ok)
           /\ Counted(ok) /\ UNCHANGED << mem_vars, rest_vars >>
    \/ \E t \in Searchers, ok \in BackendOutcomes :
           SearchAccessUpdate(t, ok) /\ Counted(ok) /\ UNCHANGED << mem_vars, rest_vars >>
    \/ \E id \in Targets \cap Minted, importance \in MergedImportances,
          embed_ok \in BOOLEAN, ok \in BackendOutcomes :
           HippocampusUpdateGet(id, importance, embed_ok, ok)
           /\ Counted(ok) /\ UNCHANGED << mem_vars, rest_vars >>
    \/ \E ok \in BackendOutcomes :
           HippocampusUpdateCommit(ok) /\ Counted(ok) /\ UNCHANGED << mem_vars, rest_vars >>

ForgetRaceSpec == ForgetRaceInit /\ [][ForgetRaceNext]_vars

\* The memory tools: the agent issues any sequence of tool calls on an empty
\* core.txt and an empty store, with or without a client that embeds; its
\* memory_add calls leave out the optional arguments (user_id "",
\* importance 5)
ToolInit ==
    /\ MemInit({}, {})
    /\ StoreInit({"None"})
    /\ EngineIdle({})
    /\ minted = 0
    /\ llm_client \in BOOLEAN
    /\ failures = 0
    /\ ToolsOff /\ RecallOff
    /\ ProfilesOff

ToolNext ==
    \/ \E text \in ToolTexts, embed_ok \in BOOLEAN, ok \in BackendOutcomes :
           /\ minted < MaxAdds
           /\ MemoryAdd(text, "", 5, embed_ok, ok)
           /\ Counted(ok) /\ UNCHANGED << mem_vars, profile_vars, recall_call, task_vars >>
    \/ \E index \in 0..(MaxAdds - 1), text \in ToolTexts, embed_ok \in BOOLEAN,
          ok \in BackendOutcomes :
           /\ MemoryUpdate(index, text, embed_ok, ok)
           /\ Counted(ok) /\ UNCHANGED << mem_vars, profile_vars, recall_call, task_vars >>
    \/ \E index \in 0..(MaxAdds - 1), ok \in BackendOutcomes :
           /\ MemoryRemove(index, ok)
           /\ Counted(ok) /\ UNCHANGED << mem_vars, profile_vars, recall_call, task_vars >>
    \/ \E op \in {"memory_update", "memory_remove"} :
           /\ OutOfRange(op, Len(core_lines))
           /\ UNCHANGED << mem_vars, failures, profile_vars, recall_call, task_vars >>

ToolSpec == ToolInit /\ [][ToolNext]_vars

\* Concurrent tool calls: two coroutines of one loop call memory_add,
\* memory_update and memory_remove
ToolCoroutines == {1, 2}

ToolRaceInit ==
    /\ MemInit({}, {})
    /\ StoreInit({"None"})
    /\ EngineIdle({})
    /\ minted = 0
    /\ llm_client = TRUE
    /\ failures = 0
    /\ ToolsOff /\ ProfilesOff
    /\ recall_call = NoRecall
    /\ tasks = << >> /\ tracked = {} /\ batch = NoBatch
    /\ tool_io = ToolIo(ToolCoroutines)

beside_tools == << mem_vars, profile_vars, recall_call, tasks, tracked, batch >>

ToolRaceNext ==
    \/ \E t \in ToolCallers, op \in ToolOps, index \in 0..(MaxAdds - 1) :
           /\ op = "memory_add" => minted < MaxAdds /\ index = 0
           /\ op = "memory_update" => index = 0
           /\ ToolBegin(t, op, IF op = "memory_add" THEN "a" ELSE "b", index, TRUE)
           /\ UNCHANGED << store_vars, failures, tool_vars, beside_tools >>
    \/ \E t \in ToolCallers :
           ToolAcquire(t)
           /\ UNCHANGED << store_vars, engine_vars, failures, tool_vars, beside_tools >>
    \/ \E t \in ToolCallers :
           ToolAddLine(t)
           /\ UNCHANGED << store_vars, engine_vars, failures, beside_tools >>
    \/ \E t \in ToolCallers, ok \in BackendOutcomes :
           ToolAddStore(t, ok) /\ Counted(ok) /\ UNCHANGED beside_tools
    \/ \E t \in ToolCallers, ok \in BackendOutcomes :
           ToolUpdateBlock(t, ok) /\ Counted(ok) /\ UNCHANGED beside_tools
    \/ \E t \in ToolCallers, ok \in BackendOutcomes :
           ToolRemoveBlock(t, ok) /\ Counted(ok) /\ UNCHANGED beside_tools

ToolRaceSpec == ToolRaceInit /\ [][ToolRaceNext]_vars

\* The writers of entries: hippocampus batches on a private and a group
\* session, and memory_add calls with and without the optional arguments.
\* (The writes of the forgetting cycle are those of ForgetSpec and
\* SummarySpec.)
WriteNext ==
    \/ \E session \in HippoSessions, raw_imp \in RawImportances,
          embed_ok \in BOOLEAN, ok \in BackendOutcomes :
           /\ minted < MaxAdds
           /\ HippocampusStore(session, raw_imp, embed_ok, ok)
           /\ Counted(ok) /\ UNCHANGED << mem_vars, rest_vars >>
    \/ \E session \in HippoSessions, id \in Minted, raw_imp \in RawImportances,
          embed_ok \in BOOLEAN, ok \in BackendOutcomes :
           /\ HippocampusMerge(session, id, raw_imp, embed_ok, ok)
           /\ Counted(ok) /\ UNCHANGED << mem_vars, rest_vars >>
    \/ \E user_id \in ToolUsers, importance \in ToolImportances,
          embed_ok \in BOOLEAN, ok \in BackendOutcomes :
           /\ minted < MaxAdds
           /\ MemoryAdd("a", user_id, importance, embed_ok, ok)
           /\ Counted(ok) /\ UNCHANGED << mem_vars, profile_vars, recall_call, task_vars >>

WriteSpec == ToolInit /\ [][WriteNext]_vars

\* the variables outside the profile store
beside_profiles == << mem_vars, store_vars, engine_vars, failures, tool_vars,
                     recall_call, task_vars >>

\* the steps of the calls of the profile store that are under way, and the
\* death of the process
ProfileSteps ==
    \/ \E t \in ProfileThreads : AcquireLock(t) /\ UNCHANGED beside_profiles
    \/ \E t \in ProfileThreads : ProfileRead(t) /\ UNCHANGED beside_profiles
    \/ \E t \in ProfileThreads : ProfileMutate(t) /\ UNCHANGED beside_profiles
    \/ \E t \in ProfileThreads : ProfileIncrement(t) /\ UNCHANGED beside_profiles
    \/ \E t \in ProfileThreads : ProfileSetFields(t) /\ UNCHANGED beside_profiles
    \/ \E t \in ProfileThreads : AcquireSaveLock(t) /\ UNCHANGED beside_profiles
    \/ \E t \in ProfileThreads : SaveMkstemp(t) /\ UNCHANGED beside_profiles
    \/ \E t \in ProfileThreads, io_ok \in BOOLEAN :
           SaveDump(t, io_ok) /\ UNCHANGED beside_profiles
    \/ \E t \in ProfileThreads : SaveReplace(t) /\ UNCHANGED beside_profiles
    \/ \E t \in ProfileThreads : ReleaseSaveLock(t) /\ UNCHANGED beside_profiles
    \/ \E t \in ProfileThreads : ReleaseLock(t) /\ UNCHANGED beside_profiles
    \/ Crash /\ UNCHANGED beside_profiles

\* The profile store under concurrency: two worker threads read the profile
\* of one user, add and remove traits and count interactions, and the
\* process may die at any step of a call
ProfileWorkers == {1, 2}

ProfileSpecInit ==
    /\ MemInit({}, {})
    /\ StoreInit({"None"})
    /\ EngineOff
    /\ ToolsOff /\ RecallOff
    /\ ProfileInit(ProfileWorkers)

ProfileNext ==
    \/ \E t \in ProfileThreads, op \in Readers, user_id \in Users :
           ProfileCall(t, op, user_id, "", "") /\ UNCHANGED beside_profiles
    \/ \E t \in ProfileThreads, op \in TraitOps, user_id \in Users,
          trait \in TraitValues :
           ProfileCall(t, op, user_id, trait, "") /\ UNCHANGED beside_profiles
    \/ \E t \in ProfileThreads, user_id \in Users :
           ProfileCall(t, "increment_and_update_profile", user_id, NewNickname, "")
           /\ UNCHANGED beside_profiles
    \/ ProfileSteps

ProfileSpec == ProfileSpecInit /\ [][ProfileNext]_vars

\* The facts of a profile: one thread issues any sequence of the calls that
\* the profile of one user takes
FactSpecInit ==
    /\ MemInit({}, {})
    /\ StoreInit({"None"})
    /\ EngineOff
    /\ ToolsOff /\ RecallOff
    /\ ProfileInit({1})

FactNext ==
    \/ \E t \in ProfileThreads, user_id \in Users :
           ProfileCall(t, "get_profile", user_id, "", "") /\ UNCHANGED beside_profiles
    \/ \E t \in ProfileThreads, user_id \in Users :
           ProfileCall(t, "update_profile", user_id, NewName, "")
           /\ UNCHANGED beside_profiles
    \/ \E t \in ProfileThreads, op \in FactOps, user_id \in Users,
          fact \in FactValues :
           ProfileCall(t, op, user_id, fact, "") /\ UNCHANGED beside_profiles
    \/ \E t \in ProfileThreads, user_id \in Users, old_fact \in FactValues,
          new_fact \in FactValues :
           ProfileCall(t, "update_fact", user_id, old_fact, new_fact)
           /\ UNCHANGED beside_profiles
    \/ \E t \in ProfileThreads, user_id \in Users :
           ProfileCall(t, "increment_and_update_profile", user_id, NewNickname, "")
           /\ UNCHANGED beside_profiles
    \/ ProfileSteps

FactSpec == FactSpecInit /\ [][FactNext]_vars


----------------------------------------------------------------------------
\* Where a chunk handed to the hippocampus can be
InBuffer(c) == {<< s, i >> \in Sessions \X (1..MaxChunks) :
                   /\ s \in DOMAIN pending_conversations
                   /\ i <= Len(pending_conversations[s])
                   /\ pending_conversations[s][i] = c}

InBatch(c) == {<< k, i >> \in (1..MaxChunks) \X (1..MaxChunks) :
                  /\ k <= Len(background_tasks)
                  /\ i <= Len(background_tasks[k].chunks)
                  /\ background_tasks[k].chunks[i] = c}

InFlight(c) == {<< t, i >> \in Callers \X (1..MaxChunks) :
                   /\ i <= Len(chunks_to_process[t])
                   /\ chunks_to_process[t][i] = c}

\* c has been handed to _buffer_for_hippocampus and appended to the buffer
Handed(c) == /\ c \in 1..next_chunk
             /\ \A t \in Callers : ~(pc[t] = "buffer" /\ call_chunk[t] = c)

Quiescent == \A t \in Callers : pc[t] = "idle"

SessionOf(c) == CHOOSE s \in Sessions : c \in SeqToSet(arrival[s])

\* C1: every chunk handed to _buffer_for_hippocampus is in exactly one place,
\* the pending buffer of its session, one spawned batch of its session, or the
\* local list of a call that has drained it and not yet spawned or restored;
\* once no update_memory call is running it is in the buffer or in exactly
\* one batch (observed = processed + buffered, no drop, no duplicate).
C1_ChunkConservation ==
    \A c \in 1..MaxChunks :
        Handed(c) =>
            /\ Cardinality(InBuffer(c)) + Cardinality(InBatch(c))
                   + Cardinality(InFlight(c)) = 1
            /\ \A p \in InBuffer(c) : p[1] = SessionOf(c)
            /\ \A p \in InBatch(c) : background_tasks[p[1]].session = SessionOf(c)
            /\ Quiescent => InFlight(c) = {}

\* witness of C1: a batch has been spawned, a later chunk sits in a buffer,
\* and no call is running
C1_Witness ==
    /\ Quiescent
    /\ Len(background_tasks) >= 1
    /\ \E s \in DOMAIN pending_conversations : Len(pending_conversations[s]) >= 1

\* the session's chunk list is within the bound
ChunkBound ==
    \A s \in DOMAIN chat_memory : Len(chat_memory[s]) <= max_memory_length

\* the step in which update_memory leaves its memory_lock block puts the new
\* chunk last
NewestLast ==
    \A t \in Callers :
        (pc[t] = "idle" /\ pc'[t] = "buffer") =>
            /\ Len(chat_memory'[call_session'[t]]) >= 1
            /\ chat_memory'[call_session'[t]][Len(chat_memory'[call_session'[t]])]
                   = call_chunk'[t]

\* C2 (as claimed): every session's chunk list has at most max_memory_length
\* chunks after any sequence of calls, and update_memory leaves its chunk last.
C2_BoundedAndNewestLast == [](ChunkBound) /\ [][NewestLast]_vars

\* position of chunk c in the arrival order of session s
ArrivalPos(s, c) == CHOOSE i \in 1..Len(arrival[s]) : arrival[s][i] = c

InArrivalOrder(s, chunks) ==
    \A i, j \in 1..Len(chunks) :
        i < j => ArrivalPos(s, chunks[i]) < ArrivalPos(s, chunks[j])

\* C8 (as claimed): the chunks of a session stand in the pending buffer, and
\* in every drained batch, in the order in which they were appended to the
\* session's chunk list under memory_lock.
C8_BufferInArrivalOrder ==
    /\ \A s \in DOMAIN pending_conversations :
           InArrivalOrder(s, pending_conversations[s])
    /\ \A k \in 1..Len(background_tasks) :
           InArrivalOrder(background_tasks[k].session, background_tasks[k].chunks)

\* the last call was update_memory with a content, on an entry that existed
UpdatedContent(id) ==
    /\ vs_call'.op = "update"
    /\ vs_call'.id = id
    /\ vs_call'.content # NoContent
    /\ id \in DOMAIN collection

\* C3: update_memory called with a new content leaves the entry with the new
\* content and a vector computed for the new content and returns true, or
\* leaves content and vector as they were and returns false; never the new
\* text beside the old vector or the reverse.
C3_ContentAndVectorTogether ==
    [][\A id \in VecIds :
          UpdatedContent(id) =>
              \/ /\ vs_call'.ret = TRUE
                 /\ id \in DOMAIN collection'
                 /\ collection'[id].document = vs_call'.content
                 /\ collection'[id].embedding.text = vs_call'.content
              \/ /\ vs_call'.ret = FALSE
                 /\ id \in DOMAIN collection'
                 /\ collection'[id].document = collection[id].document
                 /\ collection'[id].embedding = collection[id].embedding]_vars

\* witness of C3: in external-embedding mode an update_memory with a content
\* succeeded and the entry holds that content with a caller-supplied vector
C3_Witness ==
    /\ vs_call.op = "update"
    /\ vs_call.ret = TRUE
    /\ vs_call.content # NoContent
    /\ has_external_embeddings
    /\ vs_call.id \in DOMAIN collection
    /\ collection[vs_call.id].document = vs_call.content
    /\ collection[vs_call.id].embedding.src = "caller"

NoMixedSources ==
    \A i, j \in DOMAIN collection :
        collection[i].embedding.src = "default" => collection[j].embedding.src = "default"

\* C5 (as claimed): the mode changes from default-backed to external-only
\* only while the index holds no entries, and no external vector is mixed
\* into a default-embedded index.
C5_ModeSwitchOnlyWhenEmpty ==
    /\ [][(~has_external_embeddings /\ has_external_embeddings')
              => DOMAIN collection = {}]_vars
    /\ []NoMixedSources

\* C6 (as claimed): the stored access_count and last_accessed of an entry
\* never decrease.
C6_AccessMonotonic ==
    [][\A id \in (DOMAIN collection) \cap (DOMAIN collection') :
          /\ collection'[id].metadata.access_count >= collection[id].metadata.access_count
          /\ collection'[id].metadata.last_accessed >= collection[id].metadata.last_accessed]_vars

\* all searches have ended
SearchesDone == \A t \in Searchers : searcher[t].pc = "done"

\* the number of searches that returned the entry and wrote its access update
Accesses(id) == Cardinality({t \in Searchers : id \in searcher[t].found})

\* C7 (as claimed): when n searches that run concurrently in worker threads
\* have each returned an entry, its access_count is n higher than at the
\* start (0 here); no increment is lost.
C7_NoLostIncrement ==
    SearchesDone =>
        \A id \in DOMAIN collection :
            collection[id].metadata.access_count = Accesses(id)

\* C9: an entry that a forgetting cycle has deleted does not exist again
\* later, and the scan of a later cycle does not contain it, whatever
\* search access update or update_memory was in flight for it.
C9_ForgottenStaysForgotten ==
    /\ [](forgotten \cap DOMAIN collection = {})
    /\ [][cycles' > cycles =>
             forgotten \cap DOMAIN forgetter'.all_memories = {}]_vars

\* witness of C9: an update_memory read an entry, a forgetting cycle deleted
\* the entry, the update was written and found nothing, and a later cycle
\* has made its scan
C9_Witness ==
    /\ updater["hippocampus"].pc = "done"
    /\ updater["hippocampus"].ret = TRUE
    /\ updater["hippocampus"].missed
    /\ updater["hippocampus"].id \in forgotten
    /\ cycles = 2
    /\ forgetter.pc = "loop"

\* the facts a finished pass scanned with a score below 0.4 and left in the store
SurvivingLowFacts ==
    {id \in (DOMAIN forgetter.all_memories) \cap (DOMAIN collection) :
        /\ forgetter.all_memories[id].memory_type = "fact"
        /\ ScoreBelow(forgetter.all_memories[id], forgetter.now, 400)}

\* C10 (as claimed): after run_forgetting_cycle every fact that survived the
\* pass with a score below 0.4 has an importance strictly lower than before
\* the pass, for every starting importance 1..10.
C10_StrictlyLower ==
    forgetter.pc = "done" =>
        \A id \in SurvivingLowFacts :
            collection[id].metadata.importance < forgetter.all_memories[id].importance

\* the step in which the store accepts the downgrade of the entry the loop is at
DowngradeAccepted ==
    /\ forgetter.pc = "downgrade"
    /\ forgetter'.pc = "loop"
    /\ updater'["forgetter"].ret = TRUE
    /\ Head(forgetter.todo) \in DOMAIN collection'

\* C10 (amended): a downgrade the store accepts leaves the fact with the
\* importance max(1, s - 1), s being the importance the pass scanned: one
\* lower for s in 2..10, and still 1 for s = 1.
C10_DowngradeByOneFloorOne ==
    [][DowngradeAccepted =>
          LET before == ScanHead.importance
              after == collection'[Head(forgetter.todo)].metadata.importance
          IN IF before = 1 THEN after = 1 ELSE after = before - 1]_vars

\* witness of C10: a pass has downgraded a fact of importance 1 that scored
\* below 0.4; the store accepted the write and the importance is still 1
C10_Witness ==
    /\ forgetter.pc = "done"
    /\ updater["forgetter"].pc = "done"
    /\ updater["forgetter"].ret = TRUE
    /\ updater["forgetter"].id \in SurvivingLowFacts
    /\ forgetter.all_memories[updater["forgetter"].id].importance = 1
    /\ collection[updater["forgetter"].id].metadata.importance = 1

\* the summaries stored for a user since the scan of the running pass
PassSummaries(user_id) ==
    {id \in (DOMAIN collection) \ (DOMAIN forgetter.all_memories) :
        /\ collection[id].metadata.memory_type = "summary"
        /\ collection[id].metadata.user_id = user_id}

\* C11: the summarization step deletes an old fact of a user only if a
\* summary of that user was stored in the same pass; after a failed or empty
\* LLM answer, or when every add_memory of a summary failed, no old fact of
\* the user is deleted.
C11_SwapOnlyAfterSummary ==
    [][\A id \in DOMAIN collection :
          (forgetter.pc \in {"users", "store", "swap"} /\ id \notin DOMAIN collection')
              => PassSummaries(collection[id].metadata.user_id) # {}]_vars

\* witness of C11: the pass is over; the first user's old facts were swapped
\* for a summary, the second user got no summary and has all five facts
C11_Witness ==
    /\ forgetter.pc = "done"
    /\ PassSummaries("qq:1") # {}
    /\ \E id \in forgotten \cap DOMAIN forgetter.all_memories :
           forgetter.all_memories[id].user_id = "qq:1"
    /\ PassSummaries("qq:group:2") = {}
    /\ Cardinality({id \in DOMAIN collection :
                       collection[id].metadata.user_id = "qq:group:2"}) >= MinOldFacts

\* C12 (as claimed): in the state after a memory_remove with a valid index,
\* whatever tool calls came before it and whether or not their writes to
\* the store succeeded, every line j that is left in core.txt has an entry
\* core_vector_map[j], that entry names an entry of the store, and the
\* content of that entry is the line, white space at the ends aside.
C12_EveryLineMapped ==
    (tool_call.op = "memory_remove" /\ tool_call.ret # "Index out of range") =>
        \A j \in LineIndexes :
            /\ j \in DOMAIN core_vector_map
            /\ core_vector_map[j] \in DOMAIN collection
            /\ Strip(collection[core_vector_map[j]].document) = Strip(Line(j))

\* C13 (as claimed): a memory_remove(i) with a valid index i, during which
\* no call of the store raises, leaves the map entries of the keys below i
\* as they were, drops the entry of key i, moves the entry of every key
\* k > i to key k - 1 with its vector id, and leaves the store without the
\* entry that the map named for i.
C13_RemoveShiftsAndDeletes ==
    [][(Len(core_lines') < Len(core_lines) /\ failures' = failures) =>
          LET i == tool_call'.index
              below == {k \in DOMAIN core_vector_map : k < i}
              above == {k \in DOMAIN core_vector_map : k > i}
          IN /\ DOMAIN core_vector_map' = below \cup {k - 1 : k \in above}
             /\ \A k \in below : core_vector_map'[k] = core_vector_map[k]
             /\ \A k \in above : core_vector_map'[k - 1] = core_vector_map[k]
             /\ i \in DOMAIN core_vector_map =>
                    core_vector_map[i] \notin DOMAIN collection']_vars

\* C17 (as claimed): every entry of the store has an integer importance from
\* 1 to 10, whatever importance the LLM wrote for the facts of a hippocampus
\* batch and whatever merges and memory_add calls have run.
C17_ImportanceInRange ==
    \A id \in DOMAIN collection : collection[id].metadata.importance \in 1..10

\* C18 (as claimed): every entry of the store has a user_id that is not
\* empty: adapter:id or adapter:group:id on the entries of the hippocampus,
\* and a non-empty one on the entries of memory_add, also of a call that
\* leaves user_id out.
C18_UserIdNeverEmpty ==
    \A id \in DOMAIN collection : collection[id].metadata.user_id # ""

\* C14 (as claimed): whatever step of a save the process dies at, the file
\* at the profile path is absent or a complete document, and a step changes
\* it only from what it was to the complete snapshot of the save under way:
\* it is never a partly written document.
C14_PathOldOrNew ==
    [][/\ files'.path.written \in {"absent", "complete"}
       /\ \/ files'.path = files.path
          \/ \E t \in ProfileThreads :
                 /\ prof[t].pc = "replace"
                 /\ files'.path = CompleteFile(prof[t].snapshot)]_vars

\* the process died while a second save had its temporary file partly
\* written, and the profile path holds the snapshot of the first save
C14_Witness ==
    /\ crashed
    /\ \E t \in ProfileThreads : prof[t].pc = "dump"
    /\ files.tmp.written = "partial"
    /\ files.path.written = "complete"

\* the steps of a call between taking _save_lock and releasing it
Saving == {"mkstemp", "dump", "replace", "unsave"}

\* C15 (as claimed): no thread holds _save_lock while it holds _lock, and no
\* reader waits for _lock while the thread that holds _lock is writing to
\* the disk.
C15_SaveOutsideContentLock ==
    /\ \A t \in ProfileThreads : save_lock = t => lock # t
    /\ \A r \in ProfileThreads :
           (prof[r].pc = "wait" /\ prof[r].op \in Readers) =>
               ~ \E w \in ProfileThreads : lock = w /\ prof[w].pc \in Saving

RECURSIVE SumCalls(_)
SumCalls(threads) ==
    IF threads = {} THEN 0
    ELSE LET t == CHOOSE x \in threads : TRUE
         IN prof[t].calls + SumCalls(threads \ {t})

\* C16: increment_and_update_profile is one atomic mutation with one save.
\* Every call in ProfileSpec passes the same nickname to a profile that
\* starts without one, so: (a) what a get_profile or get_profile_prompt
\* saw has a raised interaction_count exactly when it has the nickname;
\* (b) a call that has returned has called _save once; (c) when no
\* call is between its increment and its return, interaction_count is the
\* number of increment_and_update_profile calls made, by whatever threads.
C16_AtomicIncrementAndUpdate ==
    /\ \A t \in ProfileThreads :
           prof[t].obs # NoObservation =>
               (prof[t].obs.interaction_count > 0
                   <=> prof[t].obs.nickname = NewNickname)
    /\ \A t \in ProfileThreads :
           (prof[t].pc = "idle" /\ prof[t].op = "increment_and_update_profile")
               => prof[t].saves = 1
    /\ \A u \in DOMAIN profiles :
           profiles[u].interaction_count = SumCalls(ProfileThreads)

\* one thread is between the increment and the setattr loop while a reader
\* in the other thread waits for _lock
C16_Witness ==
    \E t \in ProfileThreads, r \in ProfileThreads :
        /\ prof[t].op = "increment_and_update_profile"
        /\ prof[t].pc = "setattr"
        /\ prof[r].op \in Readers
        /\ prof[r].pc = "wait"

\* C19 (as claimed): the facts of a profile never hold the same string
\* twice, whatever sequence of add_fact, update_fact, remove_fact,
\* update_profile and increment_and_update_profile calls the profile took.
C19_FactsDeduped ==
    \A u \in DOMAIN profiles :
        \A fact \in FactValues : Count(profiles[u].facts, fact) <= 1

\* a list without the occurrences of v
Without(s, v) == SelectSeq(s, LAMBDA x : x # v)

\* the traits of a user, none if the profile does not exist yet
TraitsOf(ps, u) == IF u \in DOMAIN ps THEN ps[u].traits ELSE << >>

\* C20: the step in which an add_trait(u, t) call works on the profile,
\* be it the first or a repeated call and whatever the other thread does,
\* leaves t exactly once in the traits of u, leaves the other traits in
\* their order, and changes nothing when t was there already.
C20_AddTraitIdempotent ==
    [][\A t \in ProfileThreads :
          (prof[t].pc = "locked" /\ prof[t].op = "add_trait"
           /\ prof'[t].pc # "locked") =>
              LET old == TraitsOf(profiles, prof[t].user_id)
                  new == TraitsOf(profiles', prof[t].user_id)
              IN /\ Count(new, prof[t].arg) = 1
                 /\ Without(new, prof[t].arg) = Without(old, prof[t].arg)
                 /\ (prof[t].arg \in SeqToSet(old) => new = old)]_vars

\* both threads have called add_trait with the same trait on a profile
\* that had another trait: one call appended it and saved, the other found
\* it there
C20_Witness ==
    \E t1 \in ProfileThreads, t2 \in ProfileThreads, u \in DOMAIN profiles :
        /\ t1 # t2
        /\ prof[t1].op = "add_trait" /\ prof[t2].op = "add_trait"
        /\ prof[t1].arg = prof[t2].arg
        /\ prof[t1].pc = "idle" /\ prof[t2].pc = "idle"
        /\ prof[t1].saves = 1 /\ prof[t2].saves = 0
        /\ Len(profiles[u].traits) = 2
        /\ profiles[u].traits[2] = prof[t1].arg

\* C21: when a thread without a running event loop has drained the buffer
\* of a session, its next step spawns no task and leaves in the buffer the
\* drained chunks, in the order in which they were drained, followed by
\* whatever other threads appended since the drain.
C21_RestoredInFront ==
    [][\A t \in Callers :
          (pc[t] = "spawn" /\ ~loop_running[t] /\ pc'[t] # "spawn") =>
              /\ background_tasks' = background_tasks
              /\ call_session[t] \in DOMAIN pending_conversations'
              /\ pending_conversations'[call_session[t]] =
                     chunks_to_process[t]
                     \o DictGet(pending_conversations, call_session[t], << >>)]_vars

\* a restore has left more chunks in a buffer than the threshold: the
\* drained ones and, behind them, one that was appended after the drain
C21_Witness ==
    /\ background_tasks = << >>
    /\ \A t \in Callers : pc[t] = "idle"
    /\ \E s \in DOMAIN pending_conversations :
           Len(pending_conversations[s]) > hippocampus_threshold

\* C22: a search by query text, without a query embedding, on a collection
\* that holds vectors from outside returns the empty list and changes no
\* entry (no access_count, no last_accessed).
C22_TextSearchRefused ==
    [][(/\ vs_call'.op = "search"
        /\ vs_call'.query = None
        /\ has_external_embeddings) =>
           /\ vs_call'.ret = {}
           /\ ~vs_call'.raised
           /\ collection' = collection]_vars

\* a text search came back empty from a collection of default-sized vectors
\* that were given from outside (the backend could have answered the query)
C22_Witness ==
    /\ vs_call.op = "search"
    /\ vs_call.query = None
    /\ vs_call.ret = {}
    /\ has_external_embeddings
    /\ collection_dim = DefaultDim
    /\ DOMAIN collection # {}

\* C23: no operation of the store raises when the backend raises: add_memory
\* does not let the exception of the upsert through, and search does not
\* raise out of its access updates.
C23_NoOperationRaises ==
    /\ (vs_call.op = "add" => vs_call.ret # "raise")
    /\ (vs_call.op = "search" => ~vs_call.raised)

\* C24: a finished recall that had a vector from embed returns what the
\* search by that vector returned, and a finished recall without a vector
\* returns [] when the store holds vectors from outside and what the search
\* by the query text returned otherwise ([] when that search raised).
C24_PathByEmbeddingAndMode ==
    recall_call.pc = "done" =>
        IF recall_call.dim # None /\ recall_call.dim # 0
        THEN recall_call.path = "embedding"
        ELSE IF recall_call.external
        THEN recall_call.ret = {}
        ELSE recall_call.path \in {"text", "text_raised"}

C26_EachEntryOnce ==
    (/\ forgetter.pc = "loop"
     /\ failures = 0
     /\ DOMAIN collection = forgetter.scanned) =>
        /\ Len(forgetter.todo) = Cardinality(DOMAIN collection)
        /\ SeqToSet(forgetter.todo) = DOMAIN collection
        /\ DOMAIN forgetter.all_memories = DOMAIN collection

\* a scan over a store whose count is a multiple of the page size, more
\* than one page, has ended on the empty page
C26_Witness ==
    /\ forgetter.pc = "loop"
    /\ failures = 0
    /\ DOMAIN collection = forgetter.scanned
    /\ Len(forgetter.todo) = 2 * page_size
    /\ forgetter.offset = 2 * page_size

\* C27: a get_memory_by_id that follows a successful add_memory of the same
\* id returns an entry with the content, user_id, memory_type and importance
\* of the added entry, and with an embedding of the dimension of the vector
\* that was stored.
C27_AddThenGetRoundTrip ==
    [][(/\ vs_call.op = "add" /\ vs_call.ret = "ok"
        /\ vs_call'.op = "get" /\ vs_call'.found
        /\ vs_call'.id = vs_call.entry.id) =>
           LET entry == vs_call.entry
               got == vs_call'.ret
           IN  /\ got.content = entry.content
               /\ got.user_id = entry.user_id
               /\ got.memory_type = entry.memory_type
               /\ got.importance = entry.importance
               /\ "embedding" \in DOMAIN got
               /\ got.embedding.dim = collection[entry.id].embedding.dim]_vars

\* C28: an add_memory with an empty embedding list, in any mode, and an
\* add_memory without embedding argument on a store that holds vectors from
\* outside and has no injected embedding function, raise ValueError and
\* leave the stored entries and the mode flag as they were.
C28_RefusedAddChangesNothing ==
    [][\A id \in VecIds, c \in Contents, importance \in {1, 5},
          embedding \in {None, 0}, backend_ok \in BOOLEAN :
          (/\ \/ embedding = 0
              \/ has_external_embeddings /\ embedding_func = "None"
           /\ AddMemory(MemoryEntry(id, "qq:1", c, "fact", importance, now),
                        embedding, backend_ok)) =>
              /\ vs_call'.ret = "ValueError"
              /\ collection' = collection
              /\ collection_dim' = collection_dim
              /\ has_external_embeddings' = has_external_embeddings]_vars

\* an add_memory was refused by a store that holds vectors from outside and
\* has no embedding function
C28_Witness ==
    /\ vs_call.op = "add"
    /\ vs_call.ret = "ValueError"
    /\ has_external_embeddings
    /\ embedding_func = "None"
    /\ DOMAIN collection # {}

\* every thread that calls update_memory has a running event loop
AllLoopsRunning == \A t \in Callers : loop_running[t]

\* the buffers of the sessions other than s are left as they are
OtherBuffersUntouched(s) ==
    \A o \in Sessions \ {s} :
        DictGet(pending_conversations', o, << >>)
            = DictGet(pending_conversations, o, << >>)

\* the step of a call through the block under _hippocampus_lock: the buffer
\* is drained exactly when the new chunk is its third one, the drained list
\* is the buffer followed by the new chunk, and the buffer is empty then
DrainsAtThreshold ==
    \A t \in Callers :
        (pc[t] = "buffer" /\ pc'[t] # "buffer") =>
            LET s == call_session[t]
                before == DictGet(pending_conversations, s, << >>)
            IN  /\ OtherBuffersUntouched(s)
                /\ pc'[t] = "spawn" <=> Len(before) + 1 = hippocampus_threshold
                /\ pc'[t] = "spawn" =>
                       /\ chunks_to_process'[t] = Append(before, call_chunk[t])
                       /\ pending_conversations'[s] = << >>
                /\ pc'[t] # "spawn" =>
                       /\ pending_conversations'[s] = Append(before, call_chunk[t])
                       /\ background_tasks' = background_tasks

\* a task is created in the step after a drain and in no other step, for
\* the drained list and its session, and no buffer changes in that step
SpawnsTheDrained ==
    /\ \A t \in Callers :
           (pc[t] = "spawn" /\ pc'[t] # "spawn") =>
               /\ background_tasks' =
                      Append(background_tasks,
                             [session |-> call_session[t],
                              chunks |-> chunks_to_process[t]])
               /\ Len(chunks_to_process[t]) = hippocampus_threshold
               /\ pending_conversations' = pending_conversations
    /\ background_tasks' # background_tasks =>
           \E t \in Callers : pc[t] = "spawn" /\ pc'[t] # "spawn"

\* C29: when every caller has a running event loop, a task is spawned
\* exactly when an append makes a session's buffer three chunks long; its
\* batch is the buffer in the order of the buffer, followed by the new chunk;
\* the session's buffer is empty then and the other buffers are untouched;
\* and every buffer holds fewer than three chunks at all times.
C29_SpawnAtThreshold ==
    /\ [](AllLoopsRunning =>
            \A s \in DOMAIN pending_conversations :
                Len(pending_conversations[s]) < hippocampus_threshold)
    /\ [][AllLoopsRunning => DrainsAtThreshold /\ SpawnsTheDrained]_vars

\* with running loops a batch of three chunks was spawned, another chunk of
\* the session was buffered after it, and every call has returned
C29_Witness ==
    /\ AllLoopsRunning
    /\ \A t \in Callers : pc[t] = "idle"
    /\ \E k \in 1..Len(background_tasks) :
           /\ Len(background_tasks[k].chunks) = hippocampus_threshold
           /\ background_tasks[k].session \in DOMAIN pending_conversations
           /\ Len(pending_conversations[background_tasks[k].session]) = 1

\* a task that has not ended is in the set, and a task whose callback has
\* run is not; the callback has returned, after logging the exception when
\* there was one
TrackedWhilePending ==
    /\ tracked \subseteq DOMAIN tasks
    /\ \A i \in DOMAIN tasks :
           /\ tasks[i].state = "pending" => i \in tracked
           /\ tasks[i].callback \notin {"none", "scheduled"} =>
                  /\ i \notin tracked
                  /\ tasks[i].callback =
                         (IF tasks[i].state = "raised" THEN "logged" ELSE "returned")
    /\ (\A i \in DOMAIN tasks : tasks[i].callback \notin {"none", "scheduled"})
           => tracked = {}

\* a task leaves the set only after it has ended, and no step of a task or
\* of a callback touches a call of update_memory
RemovedOnlyWhenDone ==
    /\ \A i \in tracked : i \notin tracked' => tasks[i].state # "pending"
    /\ tasks' # tasks /\ Len(tasks') = Len(tasks) =>
           UNCHANGED << pc, pending_conversations, background_tasks >>

\* C30: a spawned task is in _background_tasks from its creation until it
\* has ended; it is taken out by its done callback, however it ended, and
\* the callback returns without raising; every task that has ended is
\* eventually out of the set, so that the set is empty once the callbacks of
\* all ended tasks have run.
C30_TasksTrackedUntilDone ==
    /\ []TrackedWhilePending
    /\ [][RemovedOnlyWhenDone]_vars
    /\ \A i \in 1..MaxChunks :
           (i \in DOMAIN tasks /\ tasks[i].state # "pending") ~> (i \notin tracked)

\* two tasks were spawned, one ended by cancellation and one with an
\* exception, and the set is empty again
C30_Witness ==
    /\ Len(tasks) = 2
    /\ tracked = {}
    /\ \E i, j \in DOMAIN tasks :
           tasks[i].state = "cancelled" /\ tasks[j].state = "raised"

\* the loop of run_forgetting_cycle is at an entry
AtScannedEntry == forgetter.pc \in {"loop", "downgrade"} /\ forgetter.todo # << >>

\* the entries other than the one the loop is at are as they were
OthersKept ==
    /\ DOMAIN collection' \subseteq DOMAIN collection
    /\ \A id \in DOMAIN collection \ {Head(forgetter.todo)} :
           id \in DOMAIN collection' /\ collection'[id] = collection[id]

\* the entry the loop is at is deleted, or is as it was after a delete that
\* failed, and the loop goes on to the next entry
DeletedOrKept ==
    /\ \/ Head(forgetter.todo) \notin DOMAIN collection'
       \/ collection' = collection /\ vs_call'.ret = FALSE
    /\ forgetter'.pc = "loop"
    /\ forgetter'.todo = Tail(forgetter.todo)

\* the entry the loop is at has the importance max(1, scanned - 1) and is
\* as it was otherwise, or is as it was after an update that failed
DowngradedOrKept ==
    LET id == Head(forgetter.todo)
    IN  \/ collection' = collection
        \/ /\ forgetter.pc = "downgrade"
           /\ id \in DOMAIN collection
           /\ collection' =
                  [collection EXCEPT
                      ![id].metadata.importance =
                          IF ScanHead.importance > 1 THEN ScanHead.importance - 1
                          ELSE 1]

\* C31: the loop of run_forgetting_cycle deletes the entry it is at when
\* its score is below 0.2, whatever its type, and a failed delete leaves
\* the entry and is not tried again; otherwise, when the score is below 0.4
\* and the entry is a fact, it sets the importance to max(1, importance - 1)
\* and nothing else; otherwise it leaves the entry as it is; and it touches
\* no other entry.
C31_DeleteDowngradeOrKeep ==
    [][(AtScannedEntry /\ forgetter' # forgetter) =>
          /\ OthersKept
          /\ IF ScoreBelow(ScanHead, forgetter.now, 200)
             THEN DeletedOrKept
             ELSE IF ScoreBelow(ScanHead, forgetter.now, 400)
                     /\ ScanHead.memory_type = "fact"
             THEN DowngradedOrKept
             ELSE collection' = collection /\ forgetter'.todo = Tail(forgetter.todo)]_vars

\* witness of C31: a pass is over in which the loop deleted a scanned entry
\* whose score was below 0.2 and no call of the store failed
C31_Witness ==
    /\ forgetter.pc = "done"
    /\ failures = 0
    /\ \E id \in forgotten \cap DOMAIN forgetter.all_memories :
           /\ ScoreBelow(forgetter.all_memories[id], forgetter.now, 200)
           /\ id \in forgetter.removed_ids

\* the outcomes of the calls of one _deduplicate_and_store
DedupOutcomes ==
    [embed_ok : BOOLEAN, chat_ok : BOOLEAN, again_ok : BOOLEAN,
     backend_ok : BOOLEAN, kind : UpsertErrors]

\* _deduplicate_and_store for the next fact with the given first hit and
\* decision, whatever the other calls do
Deduplicated(similar, decision) ==
    \E o \in DedupOutcomes :
        DeduplicateAndStore(o.embed_ok, similar, decision, o.chat_ok, o.again_ok,
                            o.backend_ok, o.kind)

\* C32: when _check_conflict answers "duplicate", _deduplicate_and_store
\* adds no entry and leaves every entry of the store, the similar one with
\* its content, importance, vector, access_count and last_accessed
\* included, as it was: the store holds the fact once, as before.
C32_DuplicateChangesNothing ==
    [][\/ /\ collection' = collection
          /\ minted' = minted
          /\ vs_call' = vs_call
       \/ ~ \E similar \in DOMAIN collection : Deduplicated(similar, "duplicate")]_vars

\* witness of C32: a batch of two facts has run to its end on the four
\* seeded facts, both of its facts were duplicates, and no write call was
\* made
C32_Witness ==
    /\ batch.outcome = "completed"
    /\ Len(batch.facts) = 2
    /\ vs_call = NoCall
    /\ minted = Len(SeedFacts)
    /\ Cardinality(DOMAIN collection) = Len(SeedFacts)

ReflectionOutcomes ==
    [chat_ok : BOOLEAN, embed_ok : BOOLEAN, exists : BOOLEAN, backend_ok : BOOLEAN]

\* C34: in a batch that comes to the reflection step, the LLM call of
\* _generate_reflection is made once when the store holds five or more
\* facts of the user after the facts of the batch were deduplicated and
\* stored, and is not made when it holds fewer; no call is made before that
\* step or after it.
C34_ReflectionOnceFromFiveFacts ==
    /\ [](batch.pc \in {"dedup", "reflect"} => batch.reflections = 0)
    /\ [](batch.reflections <= 1)
    /\ [][batch.pc \in {"profile", "done"} /\ batch'.started = batch.started
             => batch'.reflections = batch.reflections]_vars
    /\ [][\A o \in ReflectionOutcomes :
             GenerateReflection(TRUE, o.chat_ok, o.embed_ok, o.exists, o.backend_ok)
                 => batch'.reflections =
                        IF Cardinality({id \in DOMAIN collection :
                               /\ collection[id].metadata.user_id = batch.user_id
                               /\ collection[id].metadata.memory_type = "fact"}) >= 5
                        THEN 1 ELSE 0]_vars

\* witness of C34: the batch found four facts, stored one new fact, and has
\* made the reflection call
C34_Witness ==
    /\ batch.pc = "profile"
    /\ batch.reflections = 1
    /\ Cardinality(Matching(batch.user_id, "fact")) = Len(SeedFacts) + 1

\* C35 (as claimed): a batch that has extracted facts ends, whatever call
\* failed on the way, with every fact handed to _deduplicate_and_store and
\* with the profile update run; the failure of one step does not end the
\* batch.
C35_PipelineGoesOnAfterFailure ==
    [](batch.pc = "done" /\ batch.facts # << >>
           => batch.todo = << >> /\ batch.profiled)

\* the chunks that lie in the buffers, each with its session
Buffered ==
    UNION {{<< session, pending_conversations[session][i] >> :
               i \in 1..Len(pending_conversations[session])} :
           session \in DOMAIN pending_conversations}

InsideLock == {t \in ToolCallers : tool_io.calls[t].pc \in {"locked", "store"}}

\* C36: the tool calls run their blocks one at a time; a memory_add whose
\* entry was stored binds, in the map, the index of the line it wrote to
\* the id of its entry; and every entry of the map names a line of
\* core.txt and the id of the memory_add that wrote that line, so no two
\* lines share an index or an id of the map.
C36_ToolCallsSerialized ==
    /\ [](Cardinality(InsideLock) <= 1)
    /\ [](\A t \in InsideLock : tool_io.lock = t)
    /\ [](\A i \in DOMAIN core_vector_map :
              /\ i \in LineIndexes
              /\ tool_io.owners[i + 1] = core_vector_map[i])
    /\ [](\A i, j \in DOMAIN core_vector_map :
              core_vector_map[i] = core_vector_map[j] => i = j)
    /\ [][\A t \in ToolCallers :
             (tool_io.calls[t].pc = "store" /\ tool_io'.calls[t].pc = "idle"
              /\ vs_call'.ret = "ok")
                 => LET call == tool_io.calls[t]
                    IN  /\ core_lines'[call.line_index + 1] = call.text
                        /\ tool_io'.owners[call.line_index + 1] = call.id
                        /\ core_vector_map'[call.line_index] = call.id
                        /\ call.id \in DOMAIN collection']_vars

\* witness of C36: a memory_add has written its line and waits for the
\* store while another call waits for the lock, and an earlier line has
\* been removed
C36_Witness ==
    \E t, u \in ToolCallers :
        /\ tool_io.calls[t].pc = "store"
        /\ tool_io.calls[u].pc = "wait"
        /\ tool_io.calls[u].op = "memory_remove"
        /\ tool_io.calls[u].index < tool_io.calls[t].line_index

\* C37 (as claimed): no two update_memory calls of the engine on one entry
\* are in progress at the same time, and a downgrade of the forgetting
\* cycle does not overwrite an importance that a hippocampus merge wrote
\* after the scan of the cycle.
C37_WritesToAnEntryExclusive ==
    /\ [](\A c, d \in UpdateCallers :
              (c # d /\ updater[c].pc = "update" /\ updater[d].pc = "update")
                  => updater[c].id # updater[d].id)
    /\ [][(forgetter.pc = "downgrade" /\ forgetter'.pc = "loop")
             => LET id == Head(forgetter.todo)
                IN  (/\ id \in DOMAIN collection
                     /\ collection[id].metadata.importance
                            # forgetter.all_memories[id].importance)
                        => collection'[id].metadata.importance
                               = collection[id].metadata.importance]_vars

\* C38 (as claimed): chat_memory.json holds the very document that is in
\* memory whenever no call is inside a block under memory_lock; the blocks
\* under the lock are single steps here, so that is every state.
C38_FileEqualsDocument == [](chat_memory_file = chat_memory)

\* no call of the profile store is running, and every _save so far has
\* written its document
ProfileQuiet ==
    /\ ~crashed
    /\ \A t \in ProfileThreads : prof[t].pc = "idle" /\ prof[t].failed = 0

\* the profiles in the file at the profile path; none while there is no file
FileProfiles == files.path.data

\* C39 (amended): whatever _save puts at the profile path is the in-memory
\* state of that moment, so no older snapshot replaces a newer one; and
\* while no call runs and no write has failed, the file holds every profile
\* as it is in memory, except profiles in their default state that a call
\* created without saving.
C39_SnapshotsInOrder ==
    /\ [][files'.path # files.path => files'.path = CompleteFile(profiles)]_vars
    /\ [](ProfileQuiet =>
              /\ DOMAIN FileProfiles \subseteq DOMAIN profiles
              /\ \A u \in DOMAIN profiles :
                     IF u \in DOMAIN FileProfiles
                     THEN FileProfiles[u] = profiles[u]
                     ELSE profiles[u] = UserProfile)

\* two mutators have saved one after the other and no call is running: the
\* file holds both traits
C39_Witness ==
    /\ ProfileQuiet
    /\ files.path = CompleteFile(profiles)
    /\ \E u \in DOMAIN profiles : Len(profiles[u].traits) = 2

\* C39 (as claimed): while no call runs and no write has failed, the file
\* holds exactly the in-memory profiles.
C39_FileEqualsProfiles == [](ProfileQuiet => FileProfiles = profiles)

============================================================================
